---- MODULE Spec2Model ----
(***************************************************************************)
(* Model of the sampling-grid generation, the geometry routines and the    *)
(* shapefile export of the field dashboard: src/server.js (calculateArea,  *)
(* generateGrid, intersectsPolygon, pointInPolygon, POST /generate-grid,   *)
(* POST /export/shapefile, createShapefileBuffer, createDBFBuffer,         *)
(* createSHXBuffer, POST /generate-interpolation, POST /export/geojson,    *)
(* POST /upload/kml, /upload/geojson, /upload/shapefile), validateGeoJSON  *)
(* of src/test_geojson.js and the grid client src/unnamed/part_000         *)
(* (calculatePolygonArea, the globals and their handlers).                 *)
(*                                                                         *)
(* Numbers.  Coordinates are integers counted in units of 1/111320 degree  *)
(* (one unit is about one metre of longitude at the equator), so that      *)
(* lngStep = gridSizeMeters / 111320 degrees is gridSizeMeters units.      *)
(* The cosine is taken where it is rational (multiples of 60 degrees) and  *)
(* kept as twice its value; quotients are compared exactly.  The IEEE      *)
(* values NaN and +/-Infinity that the code can produce are kept as        *)
(* tagged numbers.                                                         *)
(***************************************************************************)
EXTENDS Integers, Sequences, FiniteSets, TLC

VARIABLES
    pc,          \* position of the grid request: idle, loop, returned, threw, responded
    via,         \* "direct" (generateGrid called) or "route" (POST /generate-grid)
    bounds,      \* <<<<swLat, swLng>>, <<neLat, neLng>>>>, or NoBounds when missing
    gridSizeHa,  \* requested cell area in hectares (0 also stands for a missing one)
    areaPolygon, \* Null, or a Feature record [geometry |-> ...]
    i,           \* outer loop index of generateGrid (latitude)
    j,           \* inner loop index of generateGrid (longitude)
    id,          \* next id to assign
    grid,        \* cells pushed so far
    points,      \* centroids pushed so far
    response,    \* what the caller got: Null, a return value or an HTTP response
    op,          \* geometry routine applied to (ring, point): "none" before it ran
    ring,        \* input ring of the geometry routine
    point,       \* input point of pointInPolygon
    asObjects,   \* client ring held as L.LatLng objects (TRUE) or arrays
    out,         \* result of the routine applied
    features,    \* features handed to the shapefile encoders
    type,        \* requested geometry kind: "points", "polygons", "" when missing
    filename,    \* archive name of the export request ("" when missing)
    today,       \* the date the server's clock shows: <<year - 1900, month, day>>
    earlier,     \* result of an earlier invocation with the same arguments
    tempFile,    \* uploads/temp_soil_data.geojson: 0 when absent, else the dataset held
    requests,    \* the /generate-interpolation requests, by number
    processes,   \* the external processes spawned, by request and parameter index;
                 \* read is the dataset a running process loaded: 0 none yet, -1 no file
    crashed,     \* the server ended on an exception nobody caught
    uploads,     \* the upload requests, by number: route, stored file, handler position
    currentBounds,       \* grid client: the area whose bounds are held, 0 for null
    currentAreaPolygon,  \* grid client: the area whose polygon is held, 0 for null
    selectedGridSize,    \* grid client: the cell size chosen, 0 for null
    gridData,            \* grid client: the grid held, NoGrid for null
    fetches              \* grid client: the /generate-grid requests not yet answered

gridVars == <<pc, via, bounds, gridSizeHa, areaPolygon, i, j, id, grid, points, response>>
geoVars == <<op, ring, point, asObjects, out>>
encVars == <<features, type, filename, today, earlier>>
interpVars == <<tempFile, requests, processes, crashed>>
uploadVars == <<uploads>>
clientVars == <<currentBounds, currentAreaPolygon, selectedGridSize, gridData, fetches>>
hostVars == <<interpVars, uploadVars, clientVars>>
vars == <<pc, via, bounds, gridSizeHa, areaPolygon, i, j, id, grid, points, response,
          op, ring, point, asObjects, out, features, type, filename, today, earlier,
          hostVars>>

Null == [kind |-> "null"]
NoBounds == <<>>

-----------------------------------------------------------------------------
(* Bounds of the model *)

\* box extents are 0, 50, ..., 50 * MaxExtent units
MaxExtent == 4
\* iterations followed of a loop that never ends
MaxIter == 3
\* lattice side of the rings given to the geometry routines
MaxCoord == 2
\* uploads in flight together
MaxUploads == 2
\* areas the user draws or imports, one after the other
MaxAreas == 2
\* /generate-grid requests of the client that are unanswered together
MaxFetches == 2
\* /generate-interpolation requests in flight together
MaxRequests == 2
\* parameters asked for in one request
MaxParameters == 2

-----------------------------------------------------------------------------
(* Numbers *)

\* 1 degree in units; the constant 111320 of the step computation
DegUnit == 111320

Fin(n) == [k |-> "fin", v |-> n]
NaN == [k |-> "nan", v |-> 0]
PosInf == [k |-> "inf", v |-> 0]
NegInf == [k |-> "ninf", v |-> 0]

Abs(n) == IF n < 0 THEN -n ELSE n

\* Math.ceil(p / q) for integers p, q with q # 0
CeilDiv(p, q) ==
    LET pp == IF q < 0 THEN -p ELSE p
        qq == IF q < 0 THEN -q ELSE q
    IN  -((-pp) \div qq)

\* Math.sqrt on the arguments used here, 10000 * m with m a square or negative:
\* NaN below zero, else the exact root 100 * sqrt(m)
Sqrt(n) ==
    IF n < 0 THEN NaN
    ELSE Fin(100 * (CHOOSE r \in 0..(n \div 10000) : r * r * 10000 = n))

\* 2 * Math.cos(u * PI / 180) for u an angle in units, at the multiples of 60 degrees
CosTwice(u) ==
    LET d == IF u % DegUnit = 0 THEN Abs(u \div DegUnit) % 360 ELSE -1
    IN  CASE d = 0 -> 2
          [] d = 60 -> 1
          [] d = 120 -> -1
          [] d = 180 -> -2
          [] d = 240 -> -1
          [] d = 300 -> 1

\* a < n / d for integers, d # 0 (the quotient is not rounded)
LtQuot(a, n, d) == IF d > 0 THEN a * d < n ELSE a * d > n

\* i < n as the loop conditions evaluate it
LtNum(k, n) ==
    CASE n.k = "fin" -> k < n.v
      [] n.k = "inf" -> TRUE
      [] OTHER -> FALSE

-----------------------------------------------------------------------------
(* GeometryMath: src/server.js 112-121, 198-233; src/unnamed/part_000 279-299 *)

\* EdgeToggles with the heights compared by >= (the other half-open convention)
EdgeTogglesAtOrAbove(p, pi, pj) ==
    /\ (pi[2] >= p[2]) # (pj[2] >= p[2])
    /\ LtQuot(p[1] - pi[1], (pj[1] - pi[1]) * (p[2] - pi[2]), pj[2] - pi[2])

\* one iteration of the loop of pointInPolygon: does edge (pi, pj) toggle `inside`
EdgeToggles(p, pi, pj) ==
    /\ (pi[2] > p[2]) # (pj[2] > p[2])
    /\ LtQuot(p[1] - pi[1], (pj[1] - pi[1]) * (p[2] - pi[2]), pj[2] - pi[2])

RECURSIVE PipFrom(_, _, _, _, _)
PipFrom(p, polygon, k, prev, inside) ==
    IF k > Len(polygon) THEN inside
    ELSE PipFrom(p, polygon, k + 1, k,
                 IF EdgeToggles(p, polygon[k], polygon[prev]) THEN ~inside ELSE inside)

\* pointInPolygon without the edge from the last vertex back to the first
pointInPolygonNoWrap(p, polygon) == PipFrom(p, polygon, 2, 1, FALSE)

pointInPolygon(p, polygon) == PipFrom(p, polygon, 1, Len(polygon), FALSE)

\* intersectsPolygon testing the first vertex of the cell only
intersectsFirstVertex(gridCoords, areaCoords) ==
    pointInPolygon(gridCoords[1], areaCoords)

intersectsPolygon(gridCoords, areaCoords) ==
    \E k \in 1..Len(gridCoords) : pointInPolygon(gridCoords[k], areaCoords)


\* the shoelace sum of calculateArea over the pairs (k, k+1), k < length - 1
RECURSIVE ShoelaceOpen(_, _)
ShoelaceOpen(coordinates, k) ==
    IF k >= Len(coordinates) THEN 0
    ELSE coordinates[k][1] * coordinates[k + 1][2]
         - coordinates[k + 1][1] * coordinates[k][2]
         + ShoelaceOpen(coordinates, k + 1)

\* calculateArea of the server, coordinates in [lng, lat] order.  The value is
\* the returned hectares times 40000 / 111.32^2 (in units^2): |sum| / 2 times
\* cos(lat of the first vertex), kept as |sum| * (2 cos).
calculateArea(coordinates) ==
    Abs(ShoelaceOpen(coordinates, 1)) * CosTwice(coordinates[1][2])

\* `c.lat || c[0]` and `c.lng || c[1]` of the client: a coordinate is either an
\* L.LatLng object (obj) or a [lat, lng] array; a zero field of an object is
\* falsy and the index read of an object is undefined
LatOf(c) == IF c.obj /\ c.lat = 0 THEN NaN ELSE Fin(c.lat)
LngOf(c) == IF c.obj /\ c.lng = 0 THEN NaN ELSE Fin(c.lng)

\* the shoelace sum of calculatePolygonArea, j = (i + 1) % n
RECURSIVE ShoelaceWrap(_, _)
ShoelaceWrap(coordinates, k) ==
    IF k > Len(coordinates) THEN 0
    ELSE LET n == Len(coordinates)
             kk == (k % n) + 1
         IN  coordinates[k].lng * coordinates[kk].lat
             - coordinates[kk].lng * coordinates[k].lat
             + ShoelaceWrap(coordinates, k + 1)

\* calculatePolygonArea of the client, scaled as calculateArea; NaN as soon as
\* one operand is undefined
calculatePolygonArea(coordinates) ==
    IF \E k \in 1..Len(coordinates) :
           LatOf(coordinates[k]) = NaN \/ LngOf(coordinates[k]) = NaN
    THEN NaN
    ELSE Fin(Abs(ShoelaceWrap(coordinates, 1)) * CosTwice(coordinates[1].lat))

\* the coordinates the client holds for a ring: layer.getLatLngs()[0] (objects)
\* or the [lat, lng] arrays built for a rectangle
ClientCoords(r, objects) ==
    [k \in 1..Len(r) |-> [obj |-> objects, lat |-> r[k][2], lng |-> r[k][1]]]


-----------------------------------------------------------------------------
(* GridEnumerator: generateGrid, src/server.js 124-195 *)

\* Math.sqrt(gridSizeHa * 10000)
gridSizeMeters(g) == Sqrt(g * 10000)

latDiff(b) == b[2][1] - b[1][1]
lngDiff(b) == b[2][2] - b[1][2]

\* gridSizeMeters / (111320 * Math.cos(bounds[0][1] * Math.PI / 180)), in units
latStep(b, g) ==
    LET m == gridSizeMeters(g)
        c == CosTwice(b[1][2])
    IN  IF m.k = "nan" THEN NaN
        ELSE Fin((IF c < 0 THEN -1 ELSE 1) * ((m.v * 2) \div Abs(c)))

\* gridSizeMeters / 111320, in units
lngStep(g) == gridSizeMeters(g)

\* Math.ceil(diff / step)
CeilQuot(diff, step) ==
    CASE step.k = "nan" -> NaN
      [] step.v = 0 /\ diff > 0 -> PosInf
      [] step.v = 0 /\ diff = 0 -> NaN
      [] step.v = 0 /\ diff < 0 -> NegInf
      [] OTHER -> Fin(CeilDiv(diff, step.v))

numLatCells(b, g) == CeilQuot(latDiff(b), latStep(b, g))
numLngCells(b, g) == CeilQuot(lngDiff(b), lngStep(g))

minLat(b, g, r) == b[1][1] + r * latStep(b, g).v
maxLat(b, g, r) == b[1][1] + (r + 1) * latStep(b, g).v
minLng(b, g, c) == b[1][2] + c * lngStep(g).v
maxLng(b, g, c) == b[1][2] + (c + 1) * lngStep(g).v

\* the ring of cell (r, c), [lng, lat] pairs
CellRing(b, g, r, c) ==
    << <<minLng(b, g, c), minLat(b, g, r)>>,
       <<maxLng(b, g, c), minLat(b, g, r)>>,
       <<maxLng(b, g, c), maxLat(b, g, r)>>,
       <<minLng(b, g, c), maxLat(b, g, r)>>,
       <<minLng(b, g, c), minLat(b, g, r)>> >>

\* gridPolygon numbering a cell by its grid position instead of the counter
gridPolygonByPosition(b, g, r, c, n) ==
    [type |-> "Feature",
     properties |-> [id |-> r * numLngCells(b, g).v + c + 1, gridSize |-> g, area |-> g],
     geometry |-> [type |-> "Polygon", coordinates |-> <<CellRing(b, g, r, c)>>]]

gridPolygon(b, g, r, c, n) ==
    [type |-> "Feature",
     properties |-> [id |-> n, gridSize |-> g, area |-> g],
     geometry |-> [type |-> "Polygon", coordinates |-> <<CellRing(b, g, r, c)>>]]

\* a sample point put at the cell's south-west corner
centroidAtCorner(b, g, r, c, n) ==
    [type |-> "Feature",
     properties |-> [id |-> n, gridSize |-> g,
                     latitude |-> minLat(b, g, r), longitude |-> minLng(b, g, c)],
     geometry |-> [type |-> "Point",
                   coordinates |-> <<minLng(b, g, c), minLat(b, g, r)>>]]

\* the steps used here are even, so the midpoints are integers
centroid(b, g, r, c, n) ==
    [type |-> "Feature",
     properties |-> [id |-> n, gridSize |-> g,
                     latitude |-> (minLat(b, g, r) + maxLat(b, g, r)) \div 2,
                     longitude |-> (minLng(b, g, c) + maxLng(b, g, c)) \div 2],
     geometry |-> [type |-> "Point",
                   coordinates |-> <<(minLng(b, g, c) + maxLng(b, g, c)) \div 2,
                                     (minLat(b, g, r) + maxLat(b, g, r)) \div 2>>]]

\* a Polygon feature as the client and the upload routes build it
PolygonFeature(r) ==
    [type |-> "Feature", geometry |-> [type |-> "Polygon", coordinates |-> <<r>>]]

\* a truthy areaPolygon without geometry: intersectsPolygon throws a TypeError
NoGeometry == [type |-> "Feature", geometry |-> Null]

\* line 170: areaPolygon && intersectsPolygon(gridPolygon, areaPolygon)
Retains(cell, a) ==
    /\ a # Null
    /\ intersectsPolygon(cell.geometry.coordinates[1], a.geometry.coordinates[1])

\* evaluating line 170 throws
Throws(a) == a # Null /\ a.geometry = Null

\* generateGrid(bounds, gridSizeHa, areaPolygon) called by some caller
CallGenerateGrid(b, g, a) ==
    /\ pc = "idle"
    /\ pc' = "loop"
    /\ via' = "direct"
    /\ bounds' = b
    /\ gridSizeHa' = g
    /\ areaPolygon' = a
    /\ i' = 0
    /\ j' = 0
    /\ id' = 1
    /\ grid' = <<>>
    /\ points' = <<>>
    /\ UNCHANGED <<response, geoVars, encVars, hostVars>>

\* POST /generate-grid, src/server.js 591-611, up to the call of generateGrid
PostGenerateGrid(b, g, a) ==
    /\ pc = "idle"
    /\ via' = "route"
    /\ bounds' = b
    /\ gridSizeHa' = g
    /\ areaPolygon' = a
    /\ i' = 0
    /\ j' = 0
    /\ id' = 1
    /\ grid' = <<>>
    /\ points' = <<>>
    /\ IF b = NoBounds \/ g = 0
       THEN /\ pc' = "responded"
            /\ response' = [status |-> 400, error |-> "Bounds e gridSize sao obrigatorios"]
       ELSE /\ pc' = "loop"
            /\ UNCHANGED response
    /\ UNCHANGED <<geoVars, encVars, hostVars>>

\* what the caller gets when generateGrid returns
Returned(g, p) ==
    IF via = "route"
    THEN [status |-> 200, success |-> TRUE, grid |-> g, points |-> p]
    ELSE [grid |-> g, points |-> p]

\* the outer loop has no end: Math.ceil gave Infinity
Unbounded(b, g) == numLatCells(b, g).k = "inf"

\* one evaluation of the loop conditions of generateGrid and, inside the inner
\* loop, one execution of its body (lines 142-192); leaving the outer loop
\* returns (line 194) and, through the route, sends the response
GridLoopStep ==
    /\ pc = "loop"
    /\ Unbounded(bounds, gridSizeHa) => i <= MaxIter /\ j <= MaxIter
    /\ IF ~LtNum(i, numLatCells(bounds, gridSizeHa))
       THEN /\ pc' = IF via = "route" THEN "responded" ELSE "returned"
            /\ response' = Returned(grid, points)
            /\ UNCHANGED <<i, j, id, grid, points>>
       ELSE IF ~LtNum(j, numLngCells(bounds, gridSizeHa))
       THEN /\ i' = i + 1
            /\ j' = 0
            /\ UNCHANGED <<pc, response, id, grid, points>>
       ELSE IF Throws(areaPolygon)
       THEN /\ pc' = IF via = "route" THEN "responded" ELSE "threw"
            /\ response' = IF via = "route"
                           THEN [status |-> 500, error |-> "Erro ao gerar grid"]
                           ELSE [error |-> "TypeError"]
            /\ UNCHANGED <<i, j, id, grid, points>>
       ELSE IF Retains(gridPolygon(bounds, gridSizeHa, i, j, id), areaPolygon)
       THEN /\ grid' = Append(grid, gridPolygon(bounds, gridSizeHa, i, j, id))
            /\ points' = Append(points, centroid(bounds, gridSizeHa, i, j, id))
            /\ id' = id + 1
            /\ j' = j + 1
            /\ UNCHANGED <<pc, response, i>>
       ELSE /\ j' = j + 1
            /\ UNCHANGED <<pc, response, i, id, grid, points>>
    /\ UNCHANGED <<via, bounds, gridSizeHa, areaPolygon, geoVars, encVars, hostVars>>

-----------------------------------------------------------------------------
(* Requests of the grid specification *)

\* south-west corners: latitude 0 or 60 degrees, longitude 0, 60 or 120 degrees
SwLats == {0, 60 * DegUnit}
SwLngs == {0, 60 * DegUnit, 120 * DegUnit}
Extents == {50 * k : k \in 0..MaxExtent}

BoundsSet ==
    {<< <<s, w>>, <<s + dy, w + dx>> >> : s \in SwLats, w \in SwLngs,
                                           dy \in Extents, dx \in Extents}

\* cell areas: invalid (negative, zero) and 1 ha, 4 ha (edges of 100 m, 200 m)
GridSizes == {-1, 0, 1, 4}

Shift(b, dx, dy) == <<b[1][2] + dx, b[1][1] + dy>>

\* the closed rectangle equal to the box, from the south-west corner
BoxRing(b) ==
    << Shift(b, 0, 0), Shift(b, lngDiff(b), 0), Shift(b, lngDiff(b), latDiff(b)),
       Shift(b, 0, latDiff(b)), Shift(b, 0, 0) >>

\* the same rectangle in the order the client builds it for a drawn rectangle
\* (src/unnamed/part_000 237-243): NE, NW, SW, SE, NE
BoxRingClient(b) ==
    << Shift(b, lngDiff(b), latDiff(b)), Shift(b, 0, latDiff(b)), Shift(b, 0, 0),
       Shift(b, lngDiff(b), 0), Shift(b, lngDiff(b), latDiff(b)) >>

\* a small triangle strictly inside the 100 x 100 square at the south-west corner
TinyRing(b) ==
    << Shift(b, 10, 10), Shift(b, 30, 10), Shift(b, 10, 30), Shift(b, 10, 10) >>

\* a small diamond around the point 200 east and 100 north of the corner
DiamondRing(b) ==
    << Shift(b, 190, 100), Shift(b, 200, 90), Shift(b, 210, 100), Shift(b, 200, 110),
       Shift(b, 190, 100) >>

\* the south-west half of the box
HalfRing(b) ==
    << Shift(b, 0, 0), Shift(b, lngDiff(b), 0), Shift(b, 0, latDiff(b)), Shift(b, 0, 0) >>

AreaPolygons(b) ==
    {Null, NoGeometry} \cup
    {PolygonFeature(r) : r \in {BoxRing(b), BoxRingClient(b), TinyRing(b),
                                DiamondRing(b), HalfRing(b)}}

GridInit ==
    /\ pc = "idle"
    /\ via = "none"
    /\ bounds = NoBounds
    /\ gridSizeHa = 0
    /\ areaPolygon = Null
    /\ i = 0
    /\ j = 0
    /\ id = 1
    /\ grid = <<>>
    /\ points = <<>>
    /\ response = Null

GeoInit ==
    /\ op = "none"
    /\ ring = <<>>
    /\ point = <<0, 0>>
    /\ asObjects = FALSE
    /\ out = Null

\* no export was requested
NoExport ==
    /\ features = <<>>
    /\ type = ""
    /\ filename = ""
    /\ today = <<126, 11, 1>>
    /\ earlier = Null

\* the temporary input file is absent
NoFile == 0

NoRequest == [state |-> "none", parameters |-> <<>>, results |-> {}, responses |-> <<>>]
NoProcess == [state |-> "none", parameter |-> "", read |-> 0, code |-> 0]

\* no interpolation was asked for yet
NoInterpolation ==
    /\ tempFile = NoFile
    /\ requests = [r \in 1..MaxRequests |-> NoRequest]
    /\ processes = [r \in 1..MaxRequests |-> [k \in 1..MaxParameters |-> NoProcess]]
    /\ crashed = FALSE

NoUpload == [route |-> "", content |-> "", pc |-> "none", file |-> "none", result |-> "",
             unlinks |-> 0, late |-> 0, status |-> 0]

\* gridData = null
NoGrid == [bounds |-> 0, areaPolygon |-> 0, gridSize |-> 0]

\* the grid client as the page loads it
NoClient ==
    /\ currentBounds = 0
    /\ currentAreaPolygon = 0
    /\ selectedGridSize = 0
    /\ gridData = NoGrid
    /\ fetches = {}

NoHost ==
    /\ NoInterpolation
    /\ uploads = [u \in 1..MaxUploads |-> NoUpload]
    /\ NoClient

Init == GridInit /\ GeoInit /\ NoExport /\ NoHost

\* some caller calls generateGrid
DirectCall ==
    /\ pc = "idle"
    /\ \E b \in BoundsSet : \E g \in GridSizes : \E a \in AreaPolygons(b) :
          CallGenerateGrid(b, g, a)

\* a client posts to /generate-grid
RouteRequest ==
    /\ pc = "idle"
    /\ \E b \in BoundsSet \cup {NoBounds} : \E g \in GridSizes :
          \E a \in (IF b = NoBounds THEN {Null} ELSE AreaPolygons(b)) :
             PostGenerateGrid(b, g, a)

Next == DirectCall \/ RouteRequest \/ GridLoopStep

Spec == Init /\ [][Next]_vars


-----------------------------------------------------------------------------
(* Properties of grid generation *)

\* generateGrid returned normally (through the route: the 200 response was sent)
Succeeded ==
    /\ pc \in {"returned", "responded"}
    /\ via = "route" => response.status = 200

\* the request ended with an error instead of a grid
Failed ==
    \/ pc = "threw"
    \/ pc = "responded" /\ response.status >= 400

IsPolygon(a) == a # Null /\ a.geometry # Null

\* the cells (row, column) that the loops of generateGrid visit
Enumerated ==
    IF /\ bounds # NoBounds
       /\ numLatCells(bounds, gridSizeHa).k = "fin"
       /\ numLngCells(bounds, gridSizeHa).k = "fin"
    THEN (0..(numLatCells(bounds, gridSizeHa).v - 1))
         \X (0..(numLngCells(bounds, gridSizeHa).v - 1))
    ELSE {}

\* the four distinct corner vertices of cell (r, c)
Corners(r, c) ==
    {<<x, y>> : x \in {minLng(bounds, gridSizeHa, c), maxLng(bounds, gridSizeHa, c)},
                y \in {minLat(bounds, gridSizeHa, r), maxLat(bounds, gridSizeHa, r)}}

CornerInside(r, c) ==
    \E q \in Corners(r, c) : pointInPolygon(q, areaPolygon.geometry.coordinates[1])

RingOf(cell) == cell.geometry.coordinates[1]

\* cell (r, c) is among the cells of the sequence g
RetainedIn(g, r, c) ==
    \E k \in 1..Len(g) : RingOf(g[k]) = CellRing(bounds, gridSizeHa, r, c)

\* C1: with a boundary polygon, a cell is retained iff one of its 4 corners is
\* inside the boundary ring; every cell pushed so far has such a corner, and
\* on return every enumerated cell with such a corner has been pushed.
C1_CornerRetention ==
    IsPolygon(areaPolygon) /\ pc # "idle" =>
        /\ \A k \in 1..Len(grid) :
              \E q \in {RingOf(grid[k])[n] : n \in 1..4} :
                 pointInPolygon(q, areaPolygon.geometry.coordinates[1])
        /\ Succeeded =>
              \A rc \in Enumerated :
                 RetainedIn(response.grid, rc[1], rc[2]) <=> CornerInside(rc[1], rc[2])

\* C1 witness: the boundary lies strictly inside the first cell, touching none
\* of its corners, and generateGrid returned without that cell (or any other)
C1_Witness ==
    /\ Succeeded
    /\ areaPolygon = PolygonFeature(TinyRing(bounds))
    /\ <<0, 0>> \in Enumerated
    /\ maxLng(bounds, gridSizeHa, 0) - minLng(bounds, gridSizeHa, 0) >= 100
    /\ maxLat(bounds, gridSizeHa, 0) - minLat(bounds, gridSizeHa, 0) >= 100
    /\ response.grid = <<>>

\* C2 (as claimed): without a boundary polygon every enumerated cell is
\* retained: N = numLatCells * numLngCells cells and points, ids 1..N row-major.
C2_NoBoundaryRetainsAll ==
    Succeeded /\ areaPolygon = Null /\ Enumerated # {} =>
        LET cols == numLngCells(bounds, gridSizeHa).v
            n == numLatCells(bounds, gridSizeHa).v * cols
        IN  /\ Len(response.grid) = n
            /\ Len(response.points) = n
            /\ \A k \in 1..Len(response.grid) :
                  /\ response.grid[k].properties.id = k
                  /\ RingOf(response.grid[k])
                       = CellRing(bounds, gridSizeHa, (k - 1) \div cols, (k - 1) % cols)

\* position of a retained cell in the row-major enumeration
PosOf(cell) ==
    LET cols == numLngCells(bounds, gridSizeHa).v
    IN  CHOOSE n \in 0..(Cardinality(Enumerated) - 1) :
           RingOf(cell) = CellRing(bounds, gridSizeHa, n \div cols, n % cols)

\* C3: the k-th cell has id k, cells and points have equal length, the k-th
\* point carries the id of the k-th cell, the next id is one past the last
\* one given, and the cells appear in row-major enumeration order.
C3_SequentialIds ==
    /\ Len(grid) = Len(points)
    /\ id = Len(grid) + 1
    /\ \A k \in 1..Len(grid) :
          /\ grid[k].properties.id = k
          /\ points[k].properties.id = k
    /\ (Enumerated # {} /\ pc # "idle") =>
          /\ \A k \in 1..Len(grid) : RetainedIn(<<grid[k]>>, PosOf(grid[k]) \div
                   numLngCells(bounds, gridSizeHa).v, PosOf(grid[k]) %
                   numLngCells(bounds, gridSizeHa).v)
          /\ \A k \in 1..(Len(grid) - 1) : PosOf(grid[k]) < PosOf(grid[k + 1])
    /\ Succeeded => response.grid = grid /\ response.points = points

\* C3 witness: a grid returned with two cells, the first enumerated cell
\* having been skipped (it consumed no id)
C3_Witness ==
    /\ Succeeded
    /\ Len(response.grid) = 2
    /\ <<0, 0>> \in Enumerated
    /\ ~RetainedIn(response.grid, 0, 0)
    /\ response.grid[2].properties.id = 2

IsBox(a) ==
    /\ bounds # NoBounds
    /\ a \in {PolygonFeature(BoxRing(bounds)), PolygonFeature(BoxRingClient(bounds))}

\* C4 (as claimed): with the boundary equal to the box and a positive cell
\* size, the number of retained cells is numLatCells * numLngCells.
C4_BoxBoundaryCount ==
    Succeeded /\ IsBox(areaPolygon) /\ gridSizeHa > 0 =>
        Len(response.grid)
            = numLatCells(bounds, gridSizeHa).v * numLngCells(bounds, gridSizeHa).v

Degenerate(b) == latDiff(b) = 0 \/ lngDiff(b) = 0

\* C6 (as claimed): with cellAreaHa = 0 (and a box that is not degenerate) grid
\* generation never is in a loop without end, enumerates no cell, and ends
\* with an error, through the route and when called directly.
C6_ZeroSizeFails ==
    via # "none" /\ gridSizeHa = 0 /\ bounds # NoBounds /\ ~Degenerate(bounds) =>
        /\ ~(pc = "loop" /\ Unbounded(bounds, gridSizeHa))
        /\ i = 0 /\ j = 0 /\ grid = <<>>
        /\ pc \in {"returned", "responded", "threw"} => Failed

\* C7 (as claimed): with a negative cell size or a degenerate box, grid
\* generation ends with an error and gives no grid and no points.
C7_InvalidParametersFail ==
    /\ via # "none"
    /\ bounds # NoBounds
    /\ gridSizeHa < 0 \/ Degenerate(bounds)
    /\ gridSizeHa # 0
    /\ pc \in {"returned", "responded", "threw"}
    => Failed


-----------------------------------------------------------------------------
(* Grid requests clipped by a convex boundary that contains the box *)

\* twice the signed area of the triangle a, b, c
Cross(a, b, c) == (b[1] - a[1]) * (c[2] - a[2]) - (b[2] - a[2]) * (c[1] - a[1])

NextIdx(r, k) == (k % Len(r)) + 1

\* r (given without a repeated first vertex) turns the same way at every
\* vertex: a strictly convex ring of 3 or 4 vertices
IsConvex(r) ==
    \/ \A k \in 1..Len(r) : Cross(r[k], r[NextIdx(r, k)], r[NextIdx(r, NextIdx(r, k))]) > 0
    \/ \A k \in 1..Len(r) : Cross(r[k], r[NextIdx(r, k)], r[NextIdx(r, NextIdx(r, k))]) < 0

\* q lies in the closed region bounded by the convex ring r
InConvex(q, r) ==
    \/ \A k \in 1..Len(r) : Cross(r[k], r[NextIdx(r, k)], q) >= 0
    \/ \A k \in 1..Len(r) : Cross(r[k], r[NextIdx(r, k)], q) <= 0

BoxCorners(b) ==
    {Shift(b, 0, 0), Shift(b, lngDiff(b), 0), Shift(b, lngDiff(b), latDiff(b)),
     Shift(b, 0, latDiff(b))}

\* vertices for the boundary: the corners of the box and points around it
Lattice(b) ==
    {Shift(b, dx, dy) : dx \in {-200, 0, lngDiff(b), 400}, dy \in {-200, 0, latDiff(b), 400}}

\* the convex triangles and quadrilaterals on the lattice that contain the box
\* each ring once per orientation, starting at its westmost (then southmost) vertex
First(r) ==
    \A k \in 2..Len(r) : r[1][1] < r[k][1] \/ (r[1][1] = r[k][1] /\ r[1][2] < r[k][2])

ConvexRings(b) ==
    {r \in (Lattice(b) \X Lattice(b) \X Lattice(b))
           \cup (Lattice(b) \X Lattice(b) \X Lattice(b) \X Lattice(b)) :
        /\ First(r)
        /\ IsConvex(r)
        /\ \A q \in BoxCorners(b) : InConvex(q, r)}

\* a ring as GeoJSON closes it: the first vertex repeated at the end
Closed(r) == Append(r, r[1])

\* boxes of the two largest extents, at each of the longitudes
ConvexBounds ==
    {<< <<0, w>>, <<dy, w + dx>> >> :
        w \in SwLngs,
        dy \in {50 * k : k \in (MaxExtent - 1)..MaxExtent},
        dx \in {50 * k : k \in (MaxExtent - 1)..MaxExtent}}

\* generateGrid called with a convex boundary around the box
ConvexCall ==
    /\ pc = "idle"
    /\ \E b \in ConvexBounds : \E r \in ConvexRings(b) : \E g \in {1, 4} :
          \E a \in {PolygonFeature(r), PolygonFeature(Closed(r))} :
             CallGenerateGrid(b, g, a)

ConvexNext == ConvexCall \/ GridLoopStep

ConvexSpec == Init /\ [][ConvexNext]_vars

\* a ring without its closing vertex, if it has one
Opened(r) == IF Len(r) > 1 /\ r[1] = r[Len(r)] THEN SubSeq(r, 1, Len(r) - 1) ELSE r

OpenRing(a) == Opened(a.geometry.coordinates[1])

\* C5: with a convex boundary that contains the box, every enumerated cell is
\* retained when generateGrid returns.
C5_ConvexRetainsAll ==
    /\ Succeeded
    /\ IsPolygon(areaPolygon)
    /\ IsConvex(OpenRing(areaPolygon))
    /\ \A q \in BoxCorners(bounds) : InConvex(q, OpenRing(areaPolygon))
    => \A rc \in Enumerated : RetainedIn(response.grid, rc[1], rc[2])

\* C5 witness: a triangle boundary through corners of the box, a grid of
\* several cells whose last row and column overshoot the box, all retained
C5_Witness ==
    /\ Succeeded
    /\ Len(OpenRing(areaPolygon)) = 3
    /\ \E q \in BoxCorners(bounds) : q = OpenRing(areaPolygon)[1]
    /\ Cardinality(Enumerated) >= 4
    /\ maxLat(bounds, gridSizeHa, numLatCells(bounds, gridSizeHa).v - 1) > bounds[2][1]
    /\ maxLng(bounds, gridSizeHa, numLngCells(bounds, gridSizeHa).v - 1) > bounds[2][2]
    /\ Len(response.grid) = Cardinality(Enumerated)


-----------------------------------------------------------------------------
(* The geometry routines applied to drawn inputs *)

\* rings of 3 or 4 vertices over a set of points
RingsOver(P) == (P \X P \X P) \cup (P \X P \X P \X P)

\* r with every coordinate multiplied by m
Scale(r, m) == [k \in 1..Len(r) |-> <<m * r[k][1], m * r[k][2]>>]

RECURSIVE SumX(_, _)
SumX(r, k) == IF k > Len(r) THEN 0 ELSE r[k][1] + SumX(r, k + 1)
RECURSIVE SumY(_, _)
SumY(r, k) == IF k > Len(r) THEN 0 ELSE r[k][2] + SumY(r, k + 1)

\* the mean of the vertices of a ring whose coordinates are multiples of 12
Centroid(r) == <<SumX(Opened(r), 1) \div Len(Opened(r)), SumY(Opened(r), 1) \div Len(Opened(r))>>

\* rings for pointInPolygon: distinct vertices on a small lattice, multiplied
\* by 12 so that edge midpoints and centroids are integers; open and closed
PipRings ==
    LET P == (0..MaxCoord) \X (0..MaxCoord)
        base == {r \in RingsOver(P) :
                    First(r) /\ \A k, l \in 1..Len(r) : k # l => r[k] # r[l]}
    IN  {Scale(r, 12) : r \in base} \cup {Closed(Scale(r, 12)) : r \in base}

\* points on, inside, around and far outside the lattice, and the centroid
PipPoints(r) ==
    {<<12 * x, 12 * y>> : x \in (-1)..(MaxCoord + 1), y \in (-1)..(MaxCoord + 1)}
    \cup {Centroid(r)}

PipInit ==
    /\ GridInit
    /\ op = "none"
    /\ ring \in PipRings
    /\ point \in PipPoints(ring)
    /\ asObjects = FALSE
    /\ out = Null
    /\ NoExport
    /\ NoHost

ApplyPointInPolygon ==
    /\ op = "none"
    /\ op' = "pointInPolygon"
    /\ out' = pointInPolygon(point, ring)
    /\ UNCHANGED <<ring, point, asObjects, gridVars, encVars, hostVars>>

PipNext == ApplyPointInPolygon

PipSpec == PipInit /\ [][PipNext]_vars

\* latitudes where the cosine is rational
AreaLats == {-60 * DegUnit, 0, 60 * DegUnit}

\* convex triangles and quadrilaterals, each without and with a closing vertex
AreaRings ==
    LET base == {r \in RingsOver((0..MaxCoord) \X AreaLats) : IsConvex(r)}
    IN  base \cup {Closed(r) : r \in base}

AreaInit ==
    /\ GridInit
    /\ op = "none"
    /\ ring \in AreaRings
    /\ point = <<0, 0>>
    /\ asObjects \in BOOLEAN
    /\ out = Null
    /\ NoExport
    /\ NoHost

\* the server computes the area of an uploaded ring
ApplyCalculateArea ==
    /\ op = "none"
    /\ op' = "calculateArea"
    /\ out' = Fin(calculateArea(ring))
    /\ UNCHANGED <<ring, point, asObjects, gridVars, encVars, hostVars>>

\* the client computes the area of a drawn layer
ApplyCalculatePolygonArea ==
    /\ op = "none"
    /\ op' = "calculatePolygonArea"
    /\ out' = calculatePolygonArea(ClientCoords(ring, asObjects))
    /\ UNCHANGED <<ring, point, asObjects, gridVars, encVars, hostVars>>

AreaNext == ApplyCalculateArea \/ ApplyCalculatePolygonArea

AreaSpec == AreaInit /\ [][AreaNext]_vars

-----------------------------------------------------------------------------
(* Properties of the geometry routines *)

\* the edge from a to b crosses the horizontal ray that leaves p to the right:
\* p's height lies in [min, max) of the edge's heights and the crossing point
\* x = a.x + (p.y - a.y) (b.x - a.x) / (b.y - a.y) is right of p
CrossesRay(p, a, b) ==
    LET lo == IF a[2] < b[2] THEN a ELSE b
        hi == IF a[2] < b[2] THEN b ELSE a
    IN  /\ lo[2] <= p[2]
        /\ p[2] < hi[2]
        /\ (p[1] - lo[1]) * (hi[2] - lo[2]) < (p[2] - lo[2]) * (hi[1] - lo[1])

\* the edges of the ring, by index of their first vertex, wrap-around included
CrossedEdges(p, r) == {k \in 1..Len(r) : CrossesRay(p, r[k], r[NextIdx(r, k)])}

OutsideBox(p, r) ==
    \/ \A k \in 1..Len(r) : p[1] < r[k][1]
    \/ \A k \in 1..Len(r) : p[1] > r[k][1]
    \/ \A k \in 1..Len(r) : p[2] < r[k][2]
    \/ \A k \in 1..Len(r) : p[2] > r[k][2]

PrevIdx(r, k) == IF k = 1 THEN Len(r) ELSE k - 1

\* vertex k of the open ring r lies on the ray of p and the ring passes from
\* one side of the ray to the other there
CrossingVertex(p, r, k) ==
    /\ r[k][2] = p[2]
    /\ r[k][1] > p[1]
    /\ \/ r[PrevIdx(r, k)][2] < p[2] /\ r[NextIdx(r, k)][2] > p[2]
       \/ r[PrevIdx(r, k)][2] > p[2] /\ r[NextIdx(r, k)][2] < p[2]

\* how many of the two edges at vertex k toggle the result
TogglesAt(p, r, k) ==
    (IF EdgeToggles(p, r[k], r[PrevIdx(r, k)]) THEN 1 ELSE 0)
    + (IF EdgeToggles(p, r[NextIdx(r, k)], r[k]) THEN 1 ELSE 0)

\* C8: pointInPolygon is true exactly when the ray to the right of the point
\* crosses an odd number of ring edges (wrap-around edge included); it is true
\* at the centroid of a convex ring, false outside the ring's bounding box, and
\* a vertex where the ring crosses the ray is counted once, not twice.
C8_EvenOdd ==
    op = "pointInPolygon" =>
        /\ out = (Cardinality(CrossedEdges(point, ring)) % 2 = 1)
        /\ (IsConvex(Opened(ring)) /\ point = Centroid(ring)) => out
        /\ OutsideBox(point, ring) => ~out
        /\ \A k \in 1..Len(Opened(ring)) :
              CrossingVertex(point, Opened(ring), k) => TogglesAt(point, Opened(ring), k) = 1

\* C8 witness: the centroid of a convex ring whose ray runs through a vertex
\* of the ring
C8_Witness ==
    /\ op = "pointInPolygon"
    /\ IsConvex(Opened(ring))
    /\ point = Centroid(ring)
    /\ \E k \in 1..Len(Opened(ring)) : CrossingVertex(point, Opened(ring), k)
    /\ out

\* the area a routine gives for ring r, as `out` holds it
AreaOf(o, r) ==
    IF o = "calculateArea" THEN Fin(calculateArea(r))
    ELSE calculatePolygonArea(ClientCoords(r, asObjects))

Rotate(r, n) == [k \in 1..Len(r) |-> r[((k + n - 1) % Len(r)) + 1]]
Reverse(r) == [k \in 1..Len(r) |-> r[Len(r) + 1 - k]]

\* the same ring started at another vertex: a closed ring stays closed
Rotations(r) ==
    IF r[1] = r[Len(r)]
    THEN {Closed(Rotate(Opened(r), n)) : n \in 0..(Len(r) - 2)}
    ELSE {Rotate(r, n) : n \in 0..(Len(r) - 1)}

\* C9 (as claimed): the area is the same for the reversed ring and for every
\* rotation of the ring.
C9_AreaOrderInvariant ==
    op # "none" =>
        \A r \in Rotations(ring) \cup {Reverse(ring)} : AreaOf(op, r) = out

\* C10 (as claimed): the area of a ring given without its closing vertex equals
\* the area of the same ring with the first vertex repeated at the end.
C10_ImplicitClosure ==
    op # "none" /\ ring[1] # ring[Len(ring)] => AreaOf(op, Closed(ring)) = out


-----------------------------------------------------------------------------
(* Byte buffers of the shapefile export: src/server.js 690-947.            *)
(*                                                                         *)
(* A byte is a number in 0..255 and a buffer a sequence of bytes, offsets  *)
(* counted from 0 as in the source.  A routine yields a buffer or throws.  *)
(* Coordinates handed to the encoders are integers counted in units of     *)
(* 1/10000 degree (the four decimals of the sample points), ids and grid   *)
(* sizes are integers; every number is tagged so that NaN, the infinities  *)
(* and undefined can be told apart.  writeDoubleLE stores the IEEE-754     *)
(* double nearest to the decimal, toFixed and toString give its text.      *)

\* 1 degree in the units of the encoder inputs
Denom == 10000

Undefined == [k |-> "undef", v |-> 0]

Buffer(b) == [kind |-> "buffer", error |-> "", bytes |-> b]
Thrown(e) == [kind |-> "throw", error |-> e, bytes |-> <<>>]

\* Buffer.alloc(n)
alloc(n) == Buffer(SubSeq([k \in 1..n |-> 0], 1, n))

\* Buffer.concat([a, b])
concat(a, b) ==
    IF a.kind = "throw" THEN a
    ELSE IF b.kind = "throw" THEN b
    ELSE Buffer(a.bytes \o b.bytes)

\* the bytes b stored from offset off on; the write* methods throw a
\* RangeError when the value does not fit between off and the buffer's end
Store(buf, b, off) ==
    IF buf.kind = "throw" THEN buf
    ELSE IF off + Len(b) > Len(buf.bytes) THEN Thrown("RangeError")
    ELSE Buffer(SubSeq(buf.bytes, 1, off) \o b
                \o SubSeq(buf.bytes, off + Len(b) + 1, Len(buf.bytes)))

\* the bytes of buf from offset off, n of them
Slice(b, off, n) == [k \in 1..n |-> b[off + k]]

RECURSIVE Pow2(_)
Pow2(n) == IF n = 0 THEN 1 ELSE 2 * Pow2(n - 1)

\* 32-bit big-endian and little-endian integers (0 <= n < 2^31)
Int32BE(n) == <<n \div 16777216, (n \div 65536) % 256, (n \div 256) % 256, n % 256>>
Int32LE(n) == <<n % 256, (n \div 256) % 256, (n \div 65536) % 256, n \div 16777216>>
UInt16LE(n) == <<n % 256, (n \div 256) % 256>>

\* the binary exponent e of a / Denom, a > 0: 2^e <= a / Denom < 2^(e + 1)
Exponent(a) ==
    CHOOSE e \in -14..8 :
        \/ e >= 0 /\ a >= Denom /\ Denom * Pow2(e) <= a /\ a < Denom * Pow2(e + 1)
        \/ e < 0 /\ a < Denom /\ Denom <= a * Pow2(-e) /\ a * Pow2(-e) < 2 * Denom

\* long division by d, 8 binary digits at a time: n quotients and then
\* what remains
RECURSIVE Quotients(_, _, _)
Quotients(r, d, n) ==
    IF n = 0 THEN <<r>>
    ELSE <<(256 * r) \div d>> \o Quotients((256 * r) % d, d, n - 1)

\* sign, exponent e and the 52 fraction bits (the 4 bits m1, then the six
\* bytes q[1] .. q[6], q[7] remaining of the division by d) rounded to
\* nearest, ties to even, and laid out lowest byte first
Pack(neg, e, m1, q, d) ==
    LET m2 == 65536 * q[1] + 256 * q[2] + q[3]
        m3 == 65536 * q[4] + 256 * q[5] + q[6]
        up == 2 * q[7] > d \/ (2 * q[7] = d /\ q[6] % 2 = 1)
        carry3 == up /\ m3 + 1 = 16777216
        carry2 == carry3 /\ m2 + 1 = 16777216
        carry1 == carry2 /\ m1 + 1 = 16
        n3 == IF up THEN (m3 + 1) % 16777216 ELSE m3
        n2 == IF carry3 THEN (m2 + 1) % 16777216 ELSE m2
        n1 == IF carry2 THEN (m1 + 1) % 16 ELSE m1
        biased == e + 1023 + (IF carry1 THEN 1 ELSE 0)
    IN  <<n3 % 256, (n3 \div 256) % 256, n3 \div 65536,
          n2 % 256, (n2 \div 256) % 256, n2 \div 65536,
          16 * (biased % 16) + n1,
          (IF neg THEN 128 ELSE 0) + (biased \div 16)>>

\* num / d lies in [1, 2): its fraction is divided out
Divide(neg, e, num, d) ==
    Pack(neg, e, (16 * (num - d)) \div d, Quotients((16 * (num - d)) % d, d, 6), d)

Normal(neg, a, e) ==
    Divide(neg, e, IF e >= 0 THEN a ELSE a * Pow2(-e),
           IF e >= 0 THEN Denom * Pow2(e) ELSE Denom)

\* the eight bytes writeDoubleLE stores, lowest first: the IEEE-754 double
\* nearest to x.v / Denom
DoubleLE(x) ==
    IF x.k = "nan" THEN <<0, 0, 0, 0, 0, 0, 248, 127>>
    ELSE IF x.k = "inf" THEN <<0, 0, 0, 0, 0, 0, 240, 127>>
    ELSE IF x.k = "ninf" THEN <<0, 0, 0, 0, 0, 0, 240, 255>>
    ELSE IF x.v = 0 THEN <<0, 0, 0, 0, 0, 0, 0, 0>>
    ELSE Normal(x.v < 0, Abs(x.v), Exponent(Abs(x.v)))

writeInt32BE(buf, value, off) == Store(buf, Int32BE(value), off)
writeInt32LE(buf, value, off) == Store(buf, Int32LE(value), off)
writeUInt32LE(buf, value, off) == Store(buf, Int32LE(value), off)
writeUInt16LE(buf, value, off) == Store(buf, UInt16LE(value), off)
\* a writeUInt8 that would lengthen the buffer when told to write at its end
writeUInt8Growing(buf, value, off) ==
    IF buf.kind = "buffer" /\ off = Len(buf.bytes) THEN Buffer(buf.bytes \o <<value>>)
    ELSE Store(buf, <<value>>, off)
writeUInt8(buf, value, off) == Store(buf, <<value>>, off)
writeDoubleLE(buf, x, off) == Store(buf, DoubleLE(x), off)

\* buf.write(string, off, length, 'ascii'): at most length bytes, and no
\* more than fit before the buffer's end; the rest of the string is dropped
write(buf, string, off, length) ==
    IF buf.kind = "throw" THEN buf
    ELSE IF off > Len(buf.bytes) THEN Thrown("RangeError")
    ELSE LET n0 == IF length < Len(string) THEN length ELSE Len(string)
             room == Len(buf.bytes) - off
             n == IF n0 < room THEN n0 ELSE room
         IN  Store(buf, SubSeq(string, 1, n), off)

-----------------------------------------------------------------------------
(* Text of numbers, as ASCII codes *)

\* "NaN" and "Infinity"
NaNText == <<78, 97, 78>>
InfinityText == <<73, 110, 102, 105, 110, 105, 116, 121>>

RECURSIVE Digits(_)
Digits(n) == IF n < 10 THEN <<48 + n>> ELSE Digits(n \div 10) \o <<48 + (n % 10)>>

Minus(n) == IF n < 0 THEN <<45>> ELSE <<>>

\* Number.prototype.toString of an integer-valued number
toString(x) ==
    IF x.k = "nan" THEN NaNText
    ELSE IF x.k = "inf" THEN InfinityText
    ELSE IF x.k = "ninf" THEN <<45>> \o InfinityText
    ELSE Minus(x.v) \o Digits(Abs(x.v))

\* Number.prototype.toFixed(6) of x.v / Denom: the four decimals and "00"
toFixed(x) ==
    IF x.k = "nan" THEN NaNText
    ELSE IF x.k = "inf" THEN InfinityText
    ELSE IF x.k = "ninf" THEN <<45>> \o InfinityText
    ELSE LET a == Abs(x.v)
             f == a % Denom
         IN  Minus(x.v) \o Digits(a \div Denom) \o <<46>>
             \o <<48 + (f \div 1000), 48 + ((f \div 100) % 10), 48 + ((f \div 10) % 10), 48 + (f % 10)>>
             \o <<48, 48>>

\* String.prototype.padStart(n, ' ') and padEnd(n, '\0')
padStart(string, n) ==
    IF Len(string) >= n THEN string ELSE [k \in 1..(n - Len(string)) |-> 32] \o string
padEnd(string, n) ==
    IF Len(string) >= n THEN string ELSE string \o [k \in 1..(n - Len(string)) |-> 0]

\* what `a || b` takes for falsy: NaN, 0 and undefined
Falsy(x) == x.k \in {"nan", "undef"} \/ (x.k = "fin" /\ x.v = 0)

-----------------------------------------------------------------------------
(* The encoders *)

\* the points that the export route folds into the global bounding box
BoxPoints(feature) ==
    IF feature.geometry.type = "Polygon" THEN feature.geometry.coordinates[1]
    ELSE IF feature.geometry.type = "Point" THEN <<feature.geometry.coordinates>>
    ELSE <<>>

MathMin(x, c) == IF x.k = "fin" /\ x.v <= c THEN x ELSE Fin(c)
MathMax(x, c) == IF x.k = "fin" /\ x.v >= c THEN x ELSE Fin(c)

RECURSIVE ExtendBox(_, _)
ExtendBox(box, pts) ==
    IF pts = <<>> THEN box
    ELSE ExtendBox([minX |-> MathMin(box.minX, pts[1][1]),
                    minY |-> MathMin(box.minY, pts[1][2]),
                    maxX |-> MathMax(box.maxX, pts[1][1]),
                    maxY |-> MathMax(box.maxY, pts[1][2])], Tail(pts))

RECURSIVE GlobalBoxFrom(_, _)
GlobalBoxFrom(fs, box) ==
    IF fs = <<>> THEN box
    ELSE GlobalBoxFrom(Tail(fs), ExtendBox(box, BoxPoints(Head(fs))))

\* minX, minY, maxX, maxY of lines 702-717
GlobalBox(fs) ==
    GlobalBoxFrom(fs, [minX |-> PosInf, minY |-> PosInf, maxX |-> NegInf, maxY |-> NegInf])

\* the 100-byte header that .shp and .shx share
FileHeader(fileLength, t, box) ==
    LET b1 == writeInt32BE(alloc(100), 9994, 0)
        b2 == writeInt32BE(b1, fileLength, 24)
        b3 == writeInt32LE(b2, 1000, 28)
        b4 == writeInt32LE(b3, IF t = "points" THEN 1 ELSE 5, 32)
        b5 == writeDoubleLE(b4, box.minX, 36)
        b6 == writeDoubleLE(b5, box.minY, 44)
        b7 == writeDoubleLE(b6, box.maxX, 52)
        b8 == writeDoubleLE(b7, box.maxY, 60)
        b9 == writeDoubleLE(b8, Fin(0), 68)
        b10 == writeDoubleLE(b9, Fin(0), 76)
        b11 == writeDoubleLE(b10, Fin(0), 84)
    IN  writeDoubleLE(b11, Fin(0), 92)

\* the points array of a polygon record, from pointOffset on
RECURSIVE WritePoints(_, _, _)
WritePoints(buf, pts, pointOffset) ==
    IF pts = <<>> THEN buf
    ELSE WritePoints(writeDoubleLE(writeDoubleLE(buf, Fin(pts[1][1]), pointOffset),
                                   Fin(pts[1][2]), pointOffset + 8),
                     Tail(pts), pointOffset + 16)

\* a point record with the latitude written first
recordBufferLatFirst(feature, box) ==
    LET b1 == writeInt32LE(alloc(28), 1, 0)
        b2 == writeDoubleLE(b1, Fin(feature.geometry.coordinates[2]), 4)
    IN  writeDoubleLE(b2, Fin(feature.geometry.coordinates[1]), 12)

\* recordBuffer of lines 785-816: always 28 bytes long
recordBuffer(feature, box) ==
    IF feature.geometry.type = "Point" THEN
        LET b1 == writeInt32LE(alloc(28), 1, 0)
            b2 == writeDoubleLE(b1, Fin(feature.geometry.coordinates[1]), 4)
        IN  writeDoubleLE(b2, Fin(feature.geometry.coordinates[2]), 12)
    ELSE IF feature.geometry.type = "Polygon" THEN
        LET b1 == writeInt32LE(alloc(28), 5, 0)
            b2 == writeDoubleLE(b1, box.minX, 4)
            b3 == writeDoubleLE(b2, box.minY, 12)
            b4 == writeDoubleLE(b3, box.maxX, 20)
            b5 == writeDoubleLE(b4, box.maxY, 28)
            b6 == writeInt32LE(b5, 1, 36)
            b7 == writeInt32LE(b6, Len(feature.geometry.coordinates[1]), 40)
            b8 == writeInt32LE(b7, 0, 44)
        IN  WritePoints(b8, feature.geometry.coordinates[1], 48)
    ELSE alloc(28)

\* recordHeader of lines 781-783; index counts from 0
recordHeader(index) == writeInt32BE(writeInt32BE(alloc(8), index + 1, 0), 28, 4)

fullRecord(feature, index, box) == concat(recordHeader(index), recordBuffer(feature, box))

RECURSIVE ShpRecords(_, _, _, _)
ShpRecords(buffer, fs, index, box) ==
    IF index >= Len(fs) THEN buffer
    ELSE ShpRecords(concat(buffer, fullRecord(fs[index + 1], index, box)), fs, index + 1, box)

createShapefileBuffer(fs, t, box) ==
    ShpRecords(FileHeader(50 + Len(fs) * 28, t, box), fs, 0, box)

\* indexRecord of lines 938-940
indexRecord(offset) == writeInt32BE(writeInt32BE(alloc(8), offset \div 2, 0), 28, 4)

RECURSIVE ShxRecords(_, _, _, _)
ShxRecords(buffer, fs, index, offset) ==
    IF index >= Len(fs) THEN buffer
    ELSE ShxRecords(concat(buffer, indexRecord(offset)), fs, index + 1, offset + 36)

createSHXBuffer(fs, t, box) ==
    ShxRecords(FileHeader(50 + Len(fs) * 4, t, box), fs, 0, 50)

\* the four columns of lines 850-855 (names in ASCII; every type is 'N')
fields ==
    << [name |-> <<73, 68>>, length |-> 10, decimal |-> 0],
       [name |-> <<71, 82, 73, 68, 83, 73, 90, 69>>, length |-> 10, decimal |-> 0],
       [name |-> <<76, 65, 84, 73, 84, 85, 68, 69>>, length |-> 15, decimal |-> 6],
       [name |-> <<76, 79, 78, 71, 73, 84, 85, 68, 69>>, length |-> 15, decimal |-> 6] >>

\* fieldDesc of lines 858-863
fieldDesc(field) ==
    LET b1 == write(alloc(32), padEnd(field.name, 11), 0, 11)
        b2 == writeUInt8(b1, 78, 11)
        b3 == writeUInt32LE(b2, 0, 12)
        b4 == writeUInt8(b3, field.length, 16)
    IN  writeUInt8(b4, field.decimal, 17)

\* the 32-byte header of lines 828-847, written on the date given
DbfHeader(fs, date) ==
    LET b1 == writeUInt8(alloc(32), 3, 0)
        b2 == writeUInt8(b1, date[1], 1)
        b3 == writeUInt8(b2, date[2], 2)
        b4 == writeUInt8(b3, date[3], 3)
        b5 == writeUInt32LE(b4, Len(fs), 4)
        b6 == writeUInt16LE(b5, 32 + (4 * 32) + 1, 8)
    IN  writeUInt16LE(b6, 32, 10)

RECURSIVE Described(_, _)
Described(buffer, k) ==
    IF k > Len(fields) THEN buffer
    ELSE Described(concat(buffer, fieldDesc(fields[k])), k + 1)

\* `properties.latitude || geometry.coordinates[1]`: of a Point the second
\* coordinate; of other geometries nothing that has a toFixed method
lat(feature) ==
    IF ~Falsy(feature.properties.latitude) THEN feature.properties.latitude
    ELSE IF feature.geometry.type = "Point" THEN Fin(feature.geometry.coordinates[2])
    ELSE Undefined

lng(feature) ==
    IF ~Falsy(feature.properties.longitude) THEN feature.properties.longitude
    ELSE IF feature.geometry.type = "Point" THEN Fin(feature.geometry.coordinates[1])
    ELSE Undefined

\* the body of the records loop, lines 873-892
record(feature) ==
    IF Undefined \in {feature.properties.id, feature.properties.gridSize,
                      lat(feature), lng(feature)}
    THEN Thrown("TypeError")
    ELSE LET b1 == writeUInt8(alloc(32), 32, 0)
             b2 == write(b1, padStart(toString(feature.properties.id), 10), 1, 10)
             b3 == write(b2, padStart(toString(feature.properties.gridSize), 10), 11, 10)
             b4 == write(b3, padStart(toFixed(lat(feature)), 15), 21, 15)
         IN  write(b4, padStart(toFixed(lng(feature)), 15), 21, 15)

RECURSIVE DbfRecords(_, _, _)
DbfRecords(buffer, fs, k) ==
    IF k > Len(fs) THEN buffer
    ELSE DbfRecords(concat(buffer, record(fs[k])), fs, k + 1)

\* lines 827-901; the terminator and the end-of-file mark are written at
\* offset buffer.length, one past the last byte
createDBFBuffer(fs, date) ==
    LET described == Described(DbfHeader(fs, date), 1)
        terminated == writeUInt8(described, 13, Len(described.bytes))
        filled == DbfRecords(terminated, fs, 1)
    IN  writeUInt8(filled, 26, Len(filled.bytes))

\* the projection text of line 732, kept by its first word "GEOGCS"
PrjText == <<71, 69, 79, 71, 67, 83>>

File(name, ext, content) == [name |-> name, ext |-> ext, content |-> content]

\* a try block that would go on with whatever was encoded
AnyEncoded(shpBuffer, dbfBuffer, shxBuffer) ==
    shpBuffer.kind = "buffer" \/ dbfBuffer.kind = "buffer" \/ shxBuffer.kind = "buffer"

\* the try block reaches zip.file only if no encoder threw
AllEncoded(shpBuffer, dbfBuffer, shxBuffer) ==
    shpBuffer.kind = "buffer" /\ dbfBuffer.kind = "buffer" /\ shxBuffer.kind = "buffer"

Response(status, zip) == [kind |-> "response", status |-> status, zip |-> zip]

\* POST /export/shapefile, lines 690-745; an empty array of features is
\* not missing (`![]` is false)
PostExportShapefile(fs, name, t, date) ==
    IF name = "" \/ t = "" THEN Response(400, {})
    ELSE LET box == GlobalBox(fs)
             shpBuffer == createShapefileBuffer(fs, t, box)
             dbfBuffer == createDBFBuffer(fs, date)
             shxBuffer == createSHXBuffer(fs, t, box)
             encoded == {b \in {File(name, "shp", shpBuffer), File(name, "dbf", dbfBuffer),
                                File(name, "shx", shxBuffer)} : b.content.kind = "buffer"}
         IN  IF AllEncoded(shpBuffer, dbfBuffer, shxBuffer)
             THEN Response(200, encoded \cup {File(name, "prj", Buffer(PrjText))})
             ELSE Response(500, {})

-----------------------------------------------------------------------------
(* Encoder inputs and the specification that applies the encoders *)

\* longest feature list handed to an encoder
MaxFeatures == 2

PointFeature(n, g, y, x) ==
    [properties |-> [id |-> n, gridSize |-> g, latitude |-> Fin(y), longitude |-> Fin(x)],
     geometry |-> [type |-> "Point", coordinates |-> <<x, y>>]]

\* the two sample points of src/test_geojson.js
TestPoints ==
    {PointFeature(Fin(1), Fin(2), -276321, -534701),
     PointFeature(Fin(2), Fin(2), -276341, -534721)}

\* a point whose id is NaN and whose latitude attribute is infinite
NonFinitePoint ==
    [properties |-> [id |-> NaN, gridSize |-> Fin(2), latitude |-> PosInf,
                     longitude |-> Fin(-534701)],
     geometry |-> [type |-> "Point", coordinates |-> <<-534701, -276321>>]]

\* a cell as generateGrid pushes it: a closed 5-vertex ring, no coordinates
\* among the properties
CellFeature ==
    [properties |-> [id |-> Fin(1), gridSize |-> Fin(2), latitude |-> Undefined,
                     longitude |-> Undefined],
     geometry |-> [type |-> "Polygon",
                   coordinates |-> << << <<-534721, -276341>>, <<-534701, -276341>>,
                                        <<-534701, -276321>>, <<-534721, -276321>>,
                                        <<-534721, -276341>> >> >>]]

\* a feature that is neither a point nor a polygon
LineFeature ==
    [properties |-> [id |-> Fin(3), gridSize |-> Fin(2), latitude |-> Fin(-276321),
                     longitude |-> Fin(-534701)],
     geometry |-> [type |-> "LineString",
                   coordinates |-> << <<-534721, -276341>>, <<-534701, -276321>>,
                                      <<-534701, -276341>> >>]]

Features == TestPoints \cup {NonFinitePoint, CellFeature, LineFeature}

FeatureLists == UNION {[1..n -> Features] : n \in 0..MaxFeatures}

Types == {"points", "polygons", ""}
Filenames == {"pontos", ""}
Dates == {<<126, 10, 31>>, <<126, 11, 1>>}

EncodeInit ==
    /\ GridInit
    /\ GeoInit
    /\ features \in FeatureLists
    /\ type \in Types
    /\ filename \in Filenames
    /\ today \in Dates
    /\ earlier = Null
    /\ NoHost

ApplyCreateShapefileBuffer ==
    /\ op = "none"
    /\ op' = "createShapefileBuffer"
    /\ out' = createShapefileBuffer(features, type, GlobalBox(features))
    /\ UNCHANGED <<ring, point, asObjects, gridVars, encVars, hostVars>>

ApplyCreateDBFBuffer ==
    /\ op = "none"
    /\ op' = "createDBFBuffer"
    /\ out' = createDBFBuffer(features, today)
    /\ UNCHANGED <<ring, point, asObjects, gridVars, encVars, hostVars>>

ApplyCreateSHXBuffer ==
    /\ op = "none"
    /\ op' = "createSHXBuffer"
    /\ out' = createSHXBuffer(features, type, GlobalBox(features))
    /\ UNCHANGED <<ring, point, asObjects, gridVars, encVars, hostVars>>

\* the records loop of createDBFBuffer taken by itself, on the first feature
ApplyRecord ==
    /\ op = "none"
    /\ features # <<>>
    /\ op' = "record"
    /\ out' = record(features[1])
    /\ UNCHANGED <<ring, point, asObjects, gridVars, encVars, hostVars>>

\* a client posts to /export/shapefile
ExportRequest ==
    /\ op = "none"
    /\ op' = "export"
    /\ out' = PostExportShapefile(features, filename, type, today)
    /\ UNCHANGED <<ring, point, asObjects, gridVars, encVars, hostVars>>

EncodeNext ==
    \/ ApplyCreateShapefileBuffer
    \/ ApplyCreateDBFBuffer
    \/ ApplyCreateSHXBuffer
    \/ ApplyRecord
    \/ ExportRequest

EncodeSpec == EncodeInit /\ [][EncodeNext]_vars

-----------------------------------------------------------------------------
(* Properties of the encoders *)

\* reading back what the write methods store
readInt32BE(b, off) ==
    16777216 * b[off + 1] + 65536 * b[off + 2] + 256 * b[off + 3] + b[off + 4]
readInt32LE(b, off) ==
    b[off + 1] + 256 * b[off + 2] + 65536 * b[off + 3] + 16777216 * b[off + 4]
readUInt16LE(b, off) == b[off + 1] + 256 * b[off + 2]

\* the decimals a reader may meet in a stream
Decimals == {0} \cup UNION {{q[1], q[2]} : q \in UNION {{p[k] : k \in 1..Len(p)} :
                                p \in {BoxPoints(f) : f \in Features}}}

\* the decimal whose double is stored at off; NaN when it is none of them
readDoubleLE(b, off) ==
    LET found == {v \in Decimals : DoubleLE(Fin(v)) = Slice(b, off, 8)}
    IN  IF found = {} THEN NaN ELSE Fin(CHOOSE v \in found : TRUE)

Encoders == {"createShapefileBuffer", "createDBFBuffer", "createSHXBuffer"}

Matches(feature, t) ==
    \/ t = "points" /\ feature.geometry.type = "Point"
    \/ t = "polygons" /\ feature.geometry.type = "Polygon"

AllOfType(fs, gt) == \A k \in 1..Len(fs) : fs[k].geometry.type = gt

\* C11: an encoder fails, and yields no stream, when the feature list is
\* empty or holds a feature whose geometry is not of the requested kind.
C11_MixedGeometryFailsFast ==
    (/\ op \in Encoders
     /\ type # ""
     /\ (features = <<>> \/ \E k \in 1..Len(features) : ~Matches(features[k], type)))
    => out.kind = "throw"

\* C12: when one of the three encoders fails the export answers with an
\* error and no archive; an archive that is sent holds .shp, .dbf, .shx
\* and .prj.
C12_AllOrNothing ==
    op = "export" =>
        LET box == GlobalBox(features)
            results == {createShapefileBuffer(features, type, box),
                        createDBFBuffer(features, today),
                        createSHXBuffer(features, type, box)}
        IN  /\ out.status = 200 =>
                  {f.ext : f \in out.zip} = {"shp", "dbf", "shx", "prj"}
            /\ (filename # "" /\ type # "" /\ \E b \in results : b.kind = "throw") =>
                  out.status = 500 /\ out.zip = {}

\* the geometry encoder returned a stream of point records, the attribute
\* encoder then failed, and the client got the error alone
C12_Witness ==
    /\ op = "export"
    /\ features # <<>>
    /\ AllOfType(features, "Point")
    /\ type = "points"
    /\ filename # ""
    /\ createShapefileBuffer(features, type, GlobalBox(features)).kind = "buffer"
    /\ createDBFBuffer(features, today).kind = "throw"
    /\ out = Response(500, {})

NonFinite(feature) ==
    \E x \in {feature.properties.id, feature.properties.gridSize,
              feature.properties.latitude, feature.properties.longitude} :
        x.k \in {"nan", "inf", "ninf"}

\* C13: encoding fails as a whole when a feature is neither a Point nor a
\* Polygon, or when one of its attributes is NaN or infinite.
C13_UnsupportedOrNonFiniteFails ==
    /\ (/\ op = "createShapefileBuffer"
        /\ \E k \in 1..Len(features) : features[k].geometry.type \notin {"Point", "Polygon"})
       => out.kind = "throw"
    /\ (op = "record" /\ NonFinite(features[1])) => out.kind = "throw"

\* C14: of a non-empty list of points the k-th record of the geometry
\* stream, 100 + 36 * (k - 1) bytes in, carries record number k, kind code 1
\* and the k-th point's longitude and latitude as x and y.
C14_PointRoundTrip ==
    (op = "createShapefileBuffer" /\ features # <<>> /\ AllOfType(features, "Point")) =>
        /\ out.kind = "buffer"
        /\ Len(out.bytes) = 100 + 36 * Len(features)
        /\ \A k \in 1..Len(features) :
              LET at == 100 + 36 * (k - 1)
              IN  /\ readInt32BE(out.bytes, at) = k
                  /\ readInt32LE(out.bytes, at + 8) = 1
                  /\ readDoubleLE(out.bytes, at + 12) = Fin(features[k].geometry.coordinates[1])
                  /\ readDoubleLE(out.bytes, at + 20) = Fin(features[k].geometry.coordinates[2])

\* the single point {lat: -27.6321, lng: -53.4701} was encoded and its
\* first record reads (-53.4701, -27.6321)
C14_Witness ==
    /\ op = "createShapefileBuffer"
    /\ features = <<PointFeature(Fin(1), Fin(2), -276321, -534701)>>
    /\ out.kind = "buffer"
    /\ readDoubleLE(out.bytes, 112) = Fin(-534701)
    /\ readDoubleLE(out.bytes, 120) = Fin(-276321)

\* where the k-th polygon record begins when every record has the size of
\* its content: 8 bytes of header, 48 up to the points, 16 a point
RECURSIVE PolygonRecordAt(_, _)
PolygonRecordAt(fs, k) ==
    IF k = 1 THEN 100
    ELSE PolygonRecordAt(fs, k - 1) + 8 + 48 + 16 * Len(fs[k - 1].geometry.coordinates[1])

\* C15: a non-empty list of polygons is encoded, and each record holds kind
\* code 5, the bounding box, numParts 1, numPoints, the parts offset 0 and
\* every vertex of the ring.
C15_PolygonRecords ==
    (op = "createShapefileBuffer" /\ features # <<>> /\ AllOfType(features, "Polygon")) =>
        /\ out.kind = "buffer"
        /\ \A k \in 1..Len(features) :
              LET at == PolygonRecordAt(features, k) + 8
                  r == features[k].geometry.coordinates[1]
              IN  /\ Len(out.bytes) >= at + 48 + 16 * Len(r)
                  /\ readInt32LE(out.bytes, at) = 5
                  /\ readInt32LE(out.bytes, at + 36) = 1
                  /\ readInt32LE(out.bytes, at + 40) = Len(r)
                  /\ readInt32LE(out.bytes, at + 44) = 0
                  /\ \A n \in 1..Len(r) :
                        /\ readDoubleLE(out.bytes, at + 48 + 16 * (n - 1)) = Fin(r[n][1])
                        /\ readDoubleLE(out.bytes, at + 56 + 16 * (n - 1)) = Fin(r[n][2])

\* C16: the file-length field of the geometry stream and of the index
\* stream, counted in 16-bit words, is the length of the stream.
C16_FileLengthFields ==
    (/\ op \in {"createShapefileBuffer", "createSHXBuffer"}
     /\ features # <<>>
     /\ out.kind = "buffer")
    => 2 * readInt32BE(out.bytes, 24) = Len(out.bytes)

\* where the k-th record header lies in the geometry stream: the 100 bytes
\* of the header and the records before it
RECURSIVE RecordPosition(_, _, _)
RecordPosition(fs, k, box) ==
    IF k = 1 THEN 100
    ELSE RecordPosition(fs, k - 1, box) + Len(fullRecord(fs[k - 1], k - 2, box).bytes)

\* C17: the index stream holds one 8-byte entry a feature; the k-th entry
\* gives, in words, where the k-th record header lies in the geometry stream
\* and repeats the content length written there.
C17_IndexLocatesRecords ==
    (op = "createSHXBuffer" /\ features # <<>> /\ AllOfType(features, "Point")) =>
        LET box == GlobalBox(features)
            shp == createShapefileBuffer(features, type, box)
        IN  /\ out.kind = "buffer"
            /\ Len(out.bytes) = 100 + 8 * Len(features)
            /\ \A k \in 1..Len(features) :
                  LET entry == 100 + 8 * (k - 1)
                      position == RecordPosition(features, k, box)
                  IN  /\ 2 * readInt32BE(out.bytes, entry) = position
                      /\ readInt32BE(out.bytes, entry + 4) = readInt32BE(shp.bytes, position + 4)

\* the text the record's columns should show for a point
IdText(feature) == padStart(toString(feature.properties.id), 10)
GridSizeText(feature) == padStart(toString(feature.properties.gridSize), 10)
LatitudeText(feature) == padStart(toFixed(lat(feature)), 15)
LongitudeText(feature) == padStart(toFixed(lng(feature)), 15)

\* the byte ranges from..from + width - 1 of two columns do not meet
Disjoint(a, wa, b, wb) == a + wa <= b \/ b + wb <= a

\* C18: in an attribute record ID, GRIDSIZE, LATITUDE and LONGITUDE lie in
\* four byte ranges of 10, 10, 15 and 15 bytes, no two of which meet, and
\* each value is read back from its range.
C18_DisjointFields ==
    (op = "record" /\ features[1] \in TestPoints) =>
        /\ out.kind = "buffer"
        /\ \E a, b \in 21..(Len(out.bytes) - 15) :
              /\ Disjoint(a, 15, b, 15)
              /\ Slice(out.bytes, 1, 10) = IdText(features[1])
              /\ Slice(out.bytes, 11, 10) = GridSizeText(features[1])
              /\ Slice(out.bytes, a, 15) = LatitudeText(features[1])
              /\ Slice(out.bytes, b, 15) = LongitudeText(features[1])

\* C19: of n >= 1 points the attribute encoder returns 32 bytes of header,
\* four descriptors of 32 bytes and a terminator, n records and an
\* end-of-file byte; the header's count is n, its header length the bytes
\* before the first record, its record length the size of a record, the
\* deletion flag and the four widths.
C19_AttributeTableLayout ==
    (op = "createDBFBuffer" /\ features # <<>> /\ AllOfType(features, "Point")) =>
        LET n == Len(features)
            before == 32 + 4 * 32 + 1
            size == 1 + fields[1].length + fields[2].length
                      + fields[3].length + fields[4].length
        IN  /\ out.kind = "buffer"
            /\ Len(out.bytes) = before + n * size + 1
            /\ readInt32LE(out.bytes, 4) = n
            /\ readUInt16LE(out.bytes, 8) = before
            /\ readUInt16LE(out.bytes, 10) = size
            /\ out.bytes[before] = 13
            /\ out.bytes[Len(out.bytes)] = 26

-----------------------------------------------------------------------------
(* Invocations repeated with the same arguments *)

\* what the routine called name yields for these arguments on that date
Encode(name, fs, t, f, date) ==
    CASE name = "createShapefileBuffer" -> createShapefileBuffer(fs, t, GlobalBox(fs))
      [] name = "createDBFBuffer" -> createDBFBuffer(fs, date)
      [] name = "createSHXBuffer" -> createSHXBuffer(fs, t, GlobalBox(fs))
      [] name = "record" -> record(fs[1])
      [] name = "export" -> PostExportShapefile(fs, f, t, date)

Routines == Encoders \cup {"record", "export"}

PureBounds ==
    {b \in BoundsSet : b[1][2] = 0 /\ latDiff(b) \in {100, 200} /\ lngDiff(b) \in {100, 200}}

PureLists == {fs \in FeatureLists : fs # <<>> /\ \A k \in 1..Len(fs) : fs[k] \in TestPoints \cup {CellFeature}}

PureInit ==
    /\ GridInit
    /\ GeoInit
    /\ features = <<>>
    /\ type = ""
    /\ filename = ""
    /\ today \in Dates
    /\ earlier = Null
    /\ NoHost

\* generateGrid is called, for the first time or again
PureCall ==
    /\ pc = "idle"
    /\ op = "none"
    /\ \E b \in PureBounds : \E g \in {1, 4} :
          \E a \in {PolygonFeature(BoxRing(b)), PolygonFeature(HalfRing(b))} :
             CallGenerateGrid(b, g, a)

\* the caller of generateGrid keeps what the first invocation gave it
Remember ==
    /\ pc \in {"returned", "threw"}
    /\ pc' = "idle"
    /\ earlier' = IF earlier = Null
                  THEN [kind |-> "grid", args |-> <<bounds, gridSizeHa, areaPolygon>>,
                        date |-> today, result |-> response]
                  ELSE earlier
    /\ UNCHANGED <<via, bounds, gridSizeHa, areaPolygon, i, j, id, grid, points, response,
                   geoVars, features, type, filename, today, hostVars>>

\* an encoder, the records loop or the export route is invoked
PureEncode ==
    /\ pc = "idle"
    /\ via = "none"
    /\ op = "none"
    /\ \E name \in Routines : \E fs \in PureLists : \E t \in {"points", "polygons"} :
          /\ op' = name
          /\ features' = fs
          /\ type' = t
          /\ filename' = "pontos"
          /\ out' = Encode(name, fs, t, "pontos", today)
    /\ UNCHANGED <<ring, point, asObjects, gridVars, today, earlier, hostVars>>

\* the same invocation again, on the same day or on another one
EncodeAgain ==
    /\ op # "none"
    /\ earlier = Null
    /\ earlier' = [kind |-> "encode", args |-> <<op, features, type, filename>>,
                   date |-> today, result |-> out]
    /\ \E date \in Dates :
          /\ today' = date
          /\ out' = Encode(op, features, type, filename, date)
    /\ UNCHANGED <<op, ring, point, asObjects, gridVars, features, type, filename, hostVars>>

PureNext == PureCall \/ GridLoopStep \/ Remember \/ PureEncode \/ EncodeAgain

PureSpec == PureInit /\ [][PureNext]_vars

-----------------------------------------------------------------------------
(* Cells, sample points and steps of generateGrid *)

\* C21: the k-th sample point is the midpoint of the extents of the k-th
\* cell, which has the same id; its coordinates are [longitude, latitude];
\* the cell's ring is (minLng,minLat), (maxLng,minLat), (maxLng,maxLat),
\* (minLng,maxLat), (minLng,minLat).
C21_PointIsCellMidpoint ==
    /\ Len(points) = Len(grid)
    /\ \A k \in 1..Len(points) :
          LET r == grid[k].geometry.coordinates[1]
              p == points[k]
          IN  /\ p.properties.id = grid[k].properties.id
              /\ Len(r) = 5
              /\ r[5] = r[1]
              /\ r[2] = <<r[3][1], r[1][2]>>
              /\ r[4] = <<r[1][1], r[3][2]>>
              /\ r[1][1] <= r[3][1] /\ r[1][2] <= r[3][2]
              /\ 2 * p.properties.latitude = r[1][2] + r[3][2]
              /\ 2 * p.properties.longitude = r[1][1] + r[3][1]
              /\ p.geometry.coordinates = <<p.properties.longitude, p.properties.latitude>>

\* a grid of several cells and points was returned
C21_Witness ==
    /\ pc = "returned"
    /\ Len(points) >= 2
    /\ response = Returned(grid, points)

\* the box moved to the south-west longitude w
AtLongitude(b, w) == << <<b[1][1], w>>, b[2] >>

\* C22: the latitude step comes from the cell edge and the cosine of the
\* south-west latitude, the longitude step from the cell edge alone; moving
\* the south-west longitude changes neither.
C22_StepsIgnoreLongitude ==
    (pc = "loop" /\ gridSizeHa > 0) =>
        /\ lngStep(gridSizeHa) = gridSizeMeters(gridSizeHa)
        /\ latStep(bounds, gridSizeHa).v * CosTwice(bounds[1][1])
              = 2 * gridSizeMeters(gridSizeHa).v
        /\ \A w \in SwLngs :
              latStep(AtLongitude(bounds, w), gridSizeHa) = latStep(bounds, gridSizeHa)

\* n is the least integer with n * step >= diff
LeastCover(n, step, diff) ==
    /\ n.k = "fin"
    /\ n.v * step.v >= diff
    /\ (n.v - 1) * step.v < diff

\* C23: over a box with a positive extent both ways and a positive cell
\* area, numLatCells and numLngCells are the least numbers of steps that
\* reach the north-east corner, so the cells (r, c), 0 <= r < numLatCells,
\* 0 <= c < numLngCells, cover the box from its south-west corner and each
\* begins inside it.
C23_CellsTileBox ==
    (pc = "loop" /\ gridSizeHa > 0 /\ latDiff(bounds) > 0 /\ lngDiff(bounds) > 0) =>
        /\ LeastCover(numLatCells(bounds, gridSizeHa), latStep(bounds, gridSizeHa),
                      latDiff(bounds))
        /\ LeastCover(numLngCells(bounds, gridSizeHa), lngStep(gridSizeHa), lngDiff(bounds))
        /\ \A r \in 0..(numLatCells(bounds, gridSizeHa).v - 1) :
              /\ minLat(bounds, gridSizeHa, r) < bounds[2][1]
              /\ maxLat(bounds, gridSizeHa, r) = minLat(bounds, gridSizeHa, r + 1)
        /\ \A c \in 0..(numLngCells(bounds, gridSizeHa).v - 1) :
              /\ minLng(bounds, gridSizeHa, c) < bounds[2][2]
              /\ maxLng(bounds, gridSizeHa, c) = minLng(bounds, gridSizeHa, c + 1)

-----------------------------------------------------------------------------
(* POST /generate-interpolation: one external process per parameter.       *)
(* A request's dataset is named by the request's number.  The handler's    *)
(* view of the server is w = [file, req, procs, thrown]: the temporary     *)
(* input file, the request's closure (parameters, results, res), the       *)
(* processes it spawned and whether an exception left the handler.         *)
(* Parameter indices are counted from 1 here, from 0 in the code.          *)

Reqs == 1..MaxRequests
ParameterNames == <<"pH", "P", "K", "Ca">>
ParameterLists == {SubSeq(ParameterNames, 1, n) : n \in 0..MaxParameters}

\* req.body: without soilData or config, with a config that has no parameters
\* list, or complete
Inputs ==
    {[kind |-> "missing", parameters |-> <<>>],
     [kind |-> "noParameters", parameters |-> <<>>]}
    \cup {[kind |-> "valid", parameters |-> ps] : ps \in ParameterLists}

\* what spawn gives: a running process, or one that could not start and
\* will emit 'error'
Outcomes == {"running", "failed"}
\* exit codes of a process that ran
ExitCodes == {0, 1}
\* the code 'close' carries after a failed spawn
SpawnErrorCode == -2

\* fs.unlinkSync(tempFile) with the failure caught at the call: the file is left as it is
unlinkSyncKept(file) == file

\* fs.unlinkSync(tempFile) inside try/catch: the file is gone
unlinkSync(file) == NoFile

\* fs.writeFileSync(tempFile, JSON.stringify(soilData.geoJson))
writeFileSync(file, data) == data

\* results.interpolations[param] = entry
Put(results, param, ok) ==
    {e \in results : e.parameter # param} \cup {[parameter |-> param, ok |-> ok]}

\* res.status(status).json(body): the first call answers the request, a
\* later one throws ERR_HTTP_HEADERS_SENT
json(w, status, body) ==
    [w EXCEPT !.req.responses = Append(@, [status |-> status, interpolations |-> body]),
              !.thrown = (w.req.responses # <<>>)]

\* spawn(pythonCmd, args) for the k-th parameter
spawn(w, k, outcome) ==
    [w EXCEPT !.procs[k] = [state |-> outcome, parameter |-> w.req.parameters[k],
                            read |-> 0, code |-> 0]]

\* the index two places on
SkipParameter(k) == k + 2

\* paramIndex + 1
NextParameter(k) == k + 1

processParameter(w, k, outcome) ==
    IF k > Len(w.req.parameters)
    THEN json([w EXCEPT !.file = unlinkSync(@)], 200, w.req.results)
    ELSE spawn(w, k, outcome)

\* a process that ended with the code given; what it had read went with it
Exited(p, code) == [p EXCEPT !.state = "closed", !.code = code, !.read = 0]

\* pythonProcess.on('close', (code) => ...)
onClose(w, k, code, outcome) ==
    IF code = 0
    THEN processParameter(
             [w EXCEPT !.procs[k] = Exited(@, code),
                       !.req.results = Put(@, w.procs[k].parameter, TRUE)],
             NextParameter(k), outcome)
    ELSE json([w EXCEPT !.procs[k] = Exited(@, code),
                        !.file = unlinkSync(@)],
              500, {})

\* the first pythonProcess.on('error', ...)
onErrorFirst(w, k, outcome) ==
    processParameter([w EXCEPT !.req.results = Put(@, w.procs[k].parameter, FALSE)],
                     NextParameter(k), outcome)

\* the second pythonProcess.on('error', ...)
onErrorSecond(w) == json([w EXCEPT !.file = unlinkSync(@)], 500, {})

\* 'error' is emitted: the listeners run in the order they were added, up
\* to the first that throws
emitError(w, k, outcome) ==
    IF onErrorFirst([w EXCEPT !.procs[k].state = "errored"], k, outcome).thrown
    THEN onErrorFirst([w EXCEPT !.procs[k].state = "errored"], k, outcome)
    ELSE onErrorSecond(onErrorFirst([w EXCEPT !.procs[k].state = "errored"], k, outcome))

\* the route handler, for request r carrying dataset r
generateInterpolation(w, r, input, outcome) ==
    CASE input.kind = "missing" ->
            json([w EXCEPT !.req.state = "received"], 400, {})
      [] input.kind = "noParameters" ->
            json([w EXCEPT !.req.state = "received", !.file = writeFileSync(@, r)], 500, {})
      [] OTHER ->
            processParameter([w EXCEPT !.req.state = "received",
                                       !.req.parameters = input.parameters,
                                       !.file = writeFileSync(@, r)],
                             1, outcome)

View(r) == [file |-> tempFile, req |-> requests[r], procs |-> processes[r], thrown |-> FALSE]

\* what a handler leaves behind; an exception nobody catches ends the server
Commit(r, w) ==
    /\ tempFile' = w.file
    /\ requests' = [requests EXCEPT ![r] = w.req]
    /\ processes' = [processes EXCEPT ![r] = w.procs]
    /\ crashed' = w.thrown

\* a request arrives; requests are numbered in the order of their arrival
PostGenerateInterpolation ==
    /\ ~crashed
    /\ \E r \in Reqs :
          /\ requests[r].state = "none"
          /\ \A q \in 1..(r - 1) : requests[q].state # "none"
          /\ \E input \in Inputs : \E outcome \in Outcomes :
                Commit(r, generateInterpolation(View(r), r, input, outcome))
    /\ UNCHANGED <<gridVars, geoVars, encVars, uploadVars, clientVars>>

\* a running process opens the file named by --input
ProcessReadsInput ==
    /\ \E r \in Reqs : \E k \in 1..MaxParameters :
          /\ processes[r][k].state = "running"
          /\ processes[r][k].read = 0
          /\ processes' = [processes EXCEPT ![r][k].read =
                              IF tempFile = NoFile THEN -1 ELSE tempFile]
    /\ UNCHANGED <<tempFile, requests, crashed, gridVars, geoVars, encVars, uploadVars,
                   clientVars>>

\* a running process ends and 'close' is emitted
ProcessCloses ==
    /\ ~crashed
    /\ \E r \in Reqs : \E k \in 1..MaxParameters :
          /\ processes[r][k].state = "running"
          /\ \E code \in ExitCodes : \E outcome \in Outcomes :
                Commit(r, onClose(View(r), k, code, outcome))
    /\ UNCHANGED <<gridVars, geoVars, encVars, uploadVars, clientVars>>

\* a process that could not start emits 'error'
ProcessErrors ==
    /\ ~crashed
    /\ \E r \in Reqs : \E k \in 1..MaxParameters :
          /\ processes[r][k].state = "failed"
          /\ \E outcome \in Outcomes : Commit(r, emitError(View(r), k, outcome))
    /\ UNCHANGED <<gridVars, geoVars, encVars, uploadVars, clientVars>>

\* 'close' follows the 'error' of a process that could not start
ErroredProcessCloses ==
    /\ ~crashed
    /\ \E r \in Reqs : \E k \in 1..MaxParameters :
          /\ processes[r][k].state = "errored"
          /\ \E outcome \in Outcomes :
                Commit(r, onClose(View(r), k, SpawnErrorCode, outcome))
    /\ UNCHANGED <<gridVars, geoVars, encVars, uploadVars, clientVars>>

InterpNext ==
    \/ PostGenerateInterpolation
    \/ ProcessReadsInput
    \/ ProcessCloses
    \/ ProcessErrors
    \/ ErroredProcessCloses

InterpSpec == Init /\ [][InterpNext]_vars

\* the processes of request r that are running
Running(r) == {k \in 1..MaxParameters : processes[r][k].state = "running"}
\* a process that ended or never started
Over(p) == p.state \in {"closed", "errored"}
\* the answer the client of request r got
Answer(r) == Head(requests[r].responses)
Answered(r) == requests[r].responses # <<>>

\* C24: in one request at most one process runs at a time; the process of
\* the k-th parameter is started only when those of the parameters before
\* it are over, and for that parameter; a success answer is sent only when
\* the process of every parameter is over (closed, or never started), and
\* holds one entry for each requested parameter.
C24_SequentialParameters ==
    \A r \in Reqs :
        /\ Cardinality(Running(r)) <= 1
        /\ \A k \in 1..MaxParameters :
              processes[r][k].state # "none" =>
                  /\ k <= Len(requests[r].parameters)
                  /\ processes[r][k].parameter = requests[r].parameters[k]
                  /\ \A h \in 1..(k - 1) : Over(processes[r][h])
        /\ (Answered(r) /\ Answer(r).status = 200) =>
              /\ \A k \in 1..Len(requests[r].parameters) : Over(processes[r][k])
              /\ {e.parameter : e \in Answer(r).interpolations}
                    = {requests[r].parameters[k] : k \in 1..Len(requests[r].parameters)}
              /\ Cardinality(Answer(r).interpolations) = Len(requests[r].parameters)

\* a request for two parameters answered with both results, each process
\* having exited with code 0
C24_Witness ==
    \E r \in Reqs :
        /\ Len(requests[r].parameters) = 2
        /\ \A k \in 1..2 : processes[r][k].state = "closed" /\ processes[r][k].code = 0
        /\ Len(requests[r].responses) = 1
        /\ Answer(r).status = 200
        /\ \A e \in Answer(r).interpolations : e.ok

\* C25: no handler sends a second response for a request, and once a
\* request is answered none of its processes is running or starting.
C25_AnsweredOnce ==
    \A r \in Reqs :
        /\ Len(requests[r].responses) <= 1
        /\ Answered(r) =>
              \A k \in 1..MaxParameters : processes[r][k].state \notin {"running", "failed"}

\* C26: a process reads the dataset of its own request, and the input
\* file holds that dataset for as long as the process may still read it.
C26_OwnDataset ==
    \A r \in Reqs : \A k \in 1..MaxParameters :
        /\ processes[r][k].read \in {0, r}
        /\ (processes[r][k].state = "running" /\ processes[r][k].read = 0) => tempFile = r

\* the k-th process of request r ran and ended with a non-zero code
ExitedNonZero(r, k) == processes[r][k].state = "closed" /\ processes[r][k].code > 0

\* C27: when a process that ran exits with a non-zero code, the handler
\* leaves the temporary input file deleted and the request answered with
\* status 500; no process is ever started for a later parameter and no
\* response of the request carries the earlier results.
C27_NonZeroExit ==
    /\ [][\A r \in Reqs : \A k \in 1..MaxParameters :
             (~ExitedNonZero(r, k) /\ ExitedNonZero(r, k)') =>
                 /\ tempFile' = NoFile
                 /\ Answered(r)'
                 /\ Answer(r)'.status = 500]_vars
    /\ [](\A r \in Reqs : \A k \in 1..MaxParameters :
             ExitedNonZero(r, k) =>
                 /\ \A h \in (k + 1)..MaxParameters : processes[r][h].state = "none"
                 /\ \A n \in 1..Len(requests[r].responses) :
                       requests[r].responses[n].interpolations = {})

\* the second process of a request exited with code 1 after the first had
\* given a result
C27_Witness ==
    \E r \in Reqs :
        /\ ExitedNonZero(r, 2)
        /\ processes[r][1].state = "closed" /\ processes[r][1].code = 0
        /\ requests[r].results # {}
        /\ Answer(r).status = 500

-----------------------------------------------------------------------------
(* POST /export/geojson and validateGeoJSON of src/test_geojson.js.        *)
(* The request body is JSON: a value is a number, a string (kept by        *)
(* whether it is empty), null, an array or an object; a key that is        *)
(* absent reads as undefined.  NaN and undefined cannot arrive in a body,  *)
(* the cleaning code's branches for them are kept.                         *)

JsNull == [k |-> "null", v |-> 0]
Str == [k |-> "str", v |-> 1]
EmptyStr == [k |-> "str", v |-> 0]
Arr(items) == [k |-> "array", v |-> items]

\* !!x
Truthy(x) ==
    \/ x.k \in {"array", "object", "inf", "ninf"}
    \/ x.k \in {"fin", "str"} /\ x.v # 0

\* lines 1242-1250: the value kept for a property
cleanValue(value) ==
    CASE value.k = "nan" -> Fin(0)
      [] value.k \in {"null", "undef"} -> EmptyStr
      [] OTHER -> value

\* lines 1239-1253: Object.keys(feature.properties).forEach(...)
cleanProperties(properties) ==
    IF properties.k = "object"
    THEN [n \in 1..Len(properties.entries) |->
             [key |-> properties.entries[n].key,
              value |-> cleanValue(properties.entries[n].value)]]
    ELSE <<>>

\* lines 1268-1275: one coordinate
validCoord(coord) == IF coord.k \in {"fin", "inf", "ninf"} THEN coord ELSE Fin(0)

\* validateCoords, lines 1264-1277; Undefined stands for the TypeError of
\* coords[0] or coords.map on what is no array
RECURSIVE validateCoords(_)
validateCoords(coords) ==
    IF coords.k # "array"
    THEN Undefined
    ELSE IF coords.v # <<>> /\ coords.v[1].k = "array"
    THEN IF \E n \in 1..Len(coords.v) : validateCoords(coords.v[n]).k = "undef"
         THEN Undefined
         ELSE Arr([n \in 1..Len(coords.v) |-> validateCoords(coords.v[n])])
    ELSE Arr([n \in 1..Len(coords.v) |-> validCoord(coords.v[n])])

\* lines 1287-1294: the feature returned when cleaning threw
MinimalFeature(index) ==
    [type |-> "Feature",
     properties |-> <<[key |-> "id", value |-> Fin(index)]>>,
     geometry |-> [k |-> "object", type |-> "Point",
                   coordinates |-> Arr(<<Fin(0), Fin(0)>>)]]

NullGeometry == [k |-> "null", type |-> "", coordinates |-> Undefined]

\* lines 1256-1281
cleanGeometry(geometry) ==
    IF geometry.k = "object" /\ geometry.type # "" /\ Truthy(geometry.coordinates)
    THEN [k |-> "object", type |-> geometry.type,
          coordinates |-> IF geometry.coordinates.k = "array"
                          THEN validateCoords(geometry.coordinates)
                          ELSE geometry.coordinates]
    ELSE NullGeometry

\* the callback of features.map, lines 1229-1296; index counts from 0
cleanFeature(feature, index) ==
    IF feature.k # "object"
    THEN MinimalFeature(index)
    ELSE IF cleanGeometry(feature.geometry).coordinates.k = "undef"
              /\ cleanGeometry(feature.geometry).k = "object"
    THEN MinimalFeature(index)
    ELSE [type |-> "Feature",
          properties |-> cleanProperties(feature.properties),
          geometry |-> cleanGeometry(feature.geometry)]

NoCollection == [type |-> "", name |-> "", features |-> <<>>]
Download(status, collection) ==
    [kind |-> "response", status |-> status, collection |-> collection]

\* POST /export/geojson, lines 1214-1340
PostExportGeojson(fs, name) ==
    IF ~Truthy(fs) \/ name = "" THEN Download(400, NoCollection)
    ELSE IF fs.k # "array" \/ Len(fs.v) = 0 THEN Download(400, NoCollection)
    ELSE Download(200, [type |-> "FeatureCollection", name |-> name,
                        features |-> [n \in 1..Len(fs.v) |-> cleanFeature(fs.v[n], n - 1)]])

\* validateGeoJSON of src/test_geojson.js: the set of errors, each the
\* feature's index (-1 for the collection) and what is wrong
validateGeoJSON(geoJson) ==
    {<<-1, "type">> : x \in {0} \cap (IF geoJson.type # "FeatureCollection" THEN {0} ELSE {})}
    \cup {<<-1, "empty">> : x \in {0} \cap (IF Len(geoJson.features) = 0 THEN {0} ELSE {})}
    \cup {<<n - 1, "type">> : n \in {m \in 1..Len(geoJson.features) :
                                      geoJson.features[m].type # "Feature"}}
    \cup {<<n - 1, "geometry">> : n \in {m \in 1..Len(geoJson.features) :
                                      geoJson.features[m].geometry.k # "object"}}
    \cup {<<n - 1, "geometry.type">> : n \in {m \in 1..Len(geoJson.features) :
                                      /\ geoJson.features[m].geometry.k = "object"
                                      /\ geoJson.features[m].geometry.type = ""}}
    \cup {<<n - 1, "coordinates">> : n \in {m \in 1..Len(geoJson.features) :
                                      /\ geoJson.features[m].geometry.k = "object"
                                      /\ ~Truthy(geoJson.features[m].geometry.coordinates)}}

\* bodies of the request
Coordinate(n) == Fin(n)
PointCoordinates == Arr(<<Coordinate(-534701), Coordinate(-276321)>>)
Geometries ==
    {NullGeometry,
     [k |-> "object", type |-> "Point", coordinates |-> PointCoordinates],
     [k |-> "object", type |-> "Point", coordinates |-> Arr(<<JsNull, Coordinate(-276321)>>)],
     [k |-> "object", type |-> "Polygon",
      coordinates |-> Arr(<<Arr(<<PointCoordinates, PointCoordinates>>)>>)],
     [k |-> "object", type |-> "LineString", coordinates |-> Arr(<<PointCoordinates, Fin(3)>>)],
     [k |-> "object", type |-> "", coordinates |-> PointCoordinates],
     [k |-> "object", type |-> "Point", coordinates |-> Undefined],
     [k |-> "object", type |-> "Point", coordinates |-> Str]}
PropertyObjects ==
    {[k |-> "null", entries |-> <<>>],
     [k |-> "object", entries |-> <<[key |-> "id", value |-> Fin(1)],
                                    [key |-> "gridSize", value |-> Fin(2)]>>],
     [k |-> "object", entries |-> <<[key |-> "id", value |-> JsNull],
                                    [key |-> "gridSize", value |-> Str]>>]}
JsonFeatures ==
    {[k |-> "null", properties |-> [k |-> "null", entries |-> <<>>], geometry |-> NullGeometry]}
    \cup {[k |-> "object", properties |-> p, geometry |-> g] :
             p \in PropertyObjects, g \in Geometries}
JsonBodies ==
    {[k |-> "undef", v |-> <<>>], [k |-> "object", v |-> <<>>]}
    \cup {Arr(fs) : fs \in UNION {[1..n -> JsonFeatures] : n \in 0..MaxFeatures}}

GeoJsonInit ==
    /\ GridInit
    /\ GeoInit
    /\ features \in JsonBodies
    /\ type = ""
    /\ filename \in Filenames
    /\ today = <<126, 11, 1>>
    /\ earlier = Null
    /\ NoHost

\* the export route answers the request
ExportGeojsonRequest ==
    /\ op = "none"
    /\ op' = "exportGeojson"
    /\ out' = PostExportGeojson(features, filename)
    /\ UNCHANGED <<ring, point, asObjects, gridVars, encVars, hostVars>>

GeoJsonNext == ExportGeojsonRequest

GeoJsonSpec == GeoJsonInit /\ [][GeoJsonNext]_vars

\* NaN somewhere in the coordinates
RECURSIVE HasNaN(_)
HasNaN(coords) ==
    \/ coords.k = "nan"
    \/ coords.k = "array" /\ \E n \in 1..Len(coords.v) : HasNaN(coords.v[n])

WellFormed(feature) ==
    /\ feature.type = "Feature"
    /\ \A n \in 1..Len(feature.properties) :
          feature.properties[n].value.k \notin {"null", "undef", "nan"}
    /\ feature.geometry.k = "object"
    /\ feature.geometry.type # ""
    /\ Truthy(feature.geometry.coordinates)
    /\ ~HasNaN(feature.geometry.coordinates)

\* C28: a request with a filename and a non-empty array of features is
\* answered with a FeatureCollection that validateGeoJSON accepts, whose
\* features have type Feature, no null, undefined or NaN property value and
\* a geometry with a type and NaN-free coordinates; a request whose
\* features are empty or no array is answered 400 and exports nothing.
C28_ExportedWellFormed ==
    op = "exportGeojson" =>
        IF features.k = "array" /\ features.v # <<>>
        THEN filename # "" =>
                /\ out.status = 200
                /\ validateGeoJSON(out.collection) = {}
                /\ \A n \in 1..Len(out.collection.features) :
                      WellFormed(out.collection.features[n])
        ELSE out = Download(400, NoCollection)

-----------------------------------------------------------------------------
(* POST /upload/kml, /upload/geojson and /upload/shapefile.  multer stores  *)
(* each received file under a name of its own in uploads/; a file is kept   *)
(* by what its content makes the handler do.                                *)

Routes == {"kml", "geojson", "shapefile"}
Contents ==
    {"none", "garbage", "noDbf", "noFeatures", "noGeometry",
     "Polygon", "Point", "LineString", "MultiPolygon"}

\* the geometry types each route turns into bounds; every other one throws
Supported(route) ==
    CASE route = "kml" -> {"Polygon", "Point", "LineString"}
      [] route = "geojson" -> {"Polygon", "Point"}
      [] route = "shapefile" -> {"Polygon", "Point", "MultiPolygon"}

\* the try block up to the cleanup: "ok", or "throw" when anything in it threw
Process(route, content) == IF content \in Supported(route) THEN "ok" ELSE "throw"

\* fs.unlinkSync(req.file.path): removes the stored file, throws when there is none
unlinkUploaded(u) ==
    [u EXCEPT !.file = IF @ = "stored" THEN "removed" ELSE @,
              !.unlinks = @ + 1,
              !.late = IF u.file = "removed" THEN @ + 1 ELSE @]

Respond(u, status) == [u EXCEPT !.status = status, !.pc = "responded"]

\* a catch block that answers 500 and leaves the file
recoverWithoutCleanup(u) == Respond(u, 500)

\* the catch block: cleanup inside its own try, then 500
recover(u) == Respond(IF u.file # "none" THEN unlinkUploaded(u) ELSE u, 500)

\* the end of the try block: cleanup, then the success answer; a cleanup
\* that throws leads to the catch block
finish(u) ==
    IF u.result = "ok"
    THEN IF u.file = "stored" THEN Respond(unlinkUploaded(u), 200)
         ELSE recover(unlinkUploaded(u))
    ELSE recover(u)

\* the handler from its start to its first await, or to its response when
\* there is none before it
handle(u) ==
    IF u.file = "none" THEN Respond(u, 400)
    ELSE IF u.route = "geojson"
    THEN finish([u EXCEPT !.result = Process(u.route, u.content)])
    ELSE [u EXCEPT !.result = Process(u.route, u.content), !.pc = "awaiting"]

\* upload.single('file') took the request in and stored its file, if any
UploadArrives ==
    /\ \E n \in 1..MaxUploads :
          /\ uploads[n].pc = "none"
          /\ \A m \in 1..(n - 1) : uploads[m].pc # "none"
          /\ \E route \in Routes : \E content \in Contents :
                uploads' = [uploads EXCEPT ![n] =
                               [NoUpload EXCEPT !.route = route, !.content = content,
                                                !.pc = "handling",
                                                !.file = IF content = "none" THEN "none"
                                                         ELSE "stored"]]
    /\ UNCHANGED <<gridVars, geoVars, encVars, interpVars, clientVars>>

\* the route handler runs
HandleUpload ==
    /\ \E n \in 1..MaxUploads :
          /\ uploads[n].pc = "handling"
          /\ uploads' = [uploads EXCEPT ![n] = handle(@)]
    /\ UNCHANGED <<gridVars, geoVars, encVars, interpVars, clientVars>>

\* the awaited parsing settles and the handler goes on to its end
ResumeUpload ==
    /\ \E n \in 1..MaxUploads :
          /\ uploads[n].pc = "awaiting"
          /\ uploads' = [uploads EXCEPT ![n] = finish(@)]
    /\ UNCHANGED <<gridVars, geoVars, encVars, interpVars, clientVars>>

UploadNext == UploadArrives \/ HandleUpload \/ ResumeUpload

UploadSpec == Init /\ [][UploadNext]_vars

\* C29: once an upload that carried a file is answered, its stored file is
\* removed, and at no time was a removal attempted after one had succeeded.
C29_UploadRemoved ==
    \A n \in 1..MaxUploads :
        /\ uploads[n].late = 0
        /\ (uploads[n].pc = "responded" /\ uploads[n].file # "none") =>
              /\ uploads[n].file = "removed"
              /\ uploads[n].unlinks = 1

\* two uploads with a file were answered, one with success and one with 500
C29_Witness ==
    /\ MaxUploads >= 2
    /\ uploads[1].status = 200
    /\ uploads[2].status = 500
    /\ uploads[2].file = "removed"
    /\ uploads[2].route # uploads[1].route

-----------------------------------------------------------------------------
(* The grid client, src/unnamed/part_000.  An area is named by a number;    *)
(* the grid the server returns for a request is kept by the bounds, the     *)
(* polygon and the cell size the request carried.                           *)

Areas == 1..MaxAreas
\* the cell sizes offered, in hectares
Sizes == {1, 4}

\* the body of the fetch in generateGrid
Request(b, a, g) == [bounds |-> b, areaPolygon |-> a, gridSize |-> g]

\* draw:created and draw:edited: calculateAreaFromLayer
DrawArea ==
    /\ \E a \in Areas :
          /\ currentBounds' = a
          /\ currentAreaPolygon' = a
    /\ UNCHANGED <<selectedGridSize, gridData, fetches,
                   gridVars, geoVars, encVars, interpVars, uploadVars>>

\* an upload was answered with success: displayImportedArea, which clears
\* the map first; areaPolygon is null when the file held no polygon
ImportArea ==
    /\ \E a \in Areas : \E polygon \in {0, a} :
          /\ currentBounds' = a
          /\ currentAreaPolygon' = polygon
    /\ selectedGridSize' = 0
    /\ gridData' = NoGrid
    /\ UNCHANGED <<fetches, gridVars, geoVars, encVars, interpVars, uploadVars>>

\* draw:deleted: clearAreaInfo
DeleteArea ==
    /\ currentBounds # 0
    /\ currentBounds' = 0
    /\ currentAreaPolygon' = 0
    /\ selectedGridSize' = 0
    /\ gridData' = NoGrid
    /\ UNCHANGED <<fetches, gridVars, geoVars, encVars, interpVars, uploadVars>>

\* selectGridSize(size)
SelectGridSize ==
    /\ \E size \in Sizes : selectedGridSize' = size
    /\ UNCHANGED <<currentBounds, currentAreaPolygon, gridData, fetches,
                   gridVars, geoVars, encVars, interpVars, uploadVars>>

\* generateGrid(): the request leaves with the values held now
GenerateGrid ==
    /\ currentBounds # 0
    /\ selectedGridSize # 0
    /\ Cardinality(fetches) < MaxFetches
    /\ fetches' = fetches \cup {Request(currentBounds, currentAreaPolygon, selectedGridSize)}
    /\ UNCHANGED <<currentBounds, currentAreaPolygon, selectedGridSize, gridData,
                   gridVars, geoVars, encVars, interpVars, uploadVars>>

\* the .then of the fetch: a response arrives, with success or not
GridResponse ==
    /\ \E f \in fetches :
          /\ fetches' = fetches \ {f}
          /\ \E success \in BOOLEAN :
                gridData' = IF success THEN f ELSE gridData
    /\ UNCHANGED <<currentBounds, currentAreaPolygon, selectedGridSize,
                   gridVars, geoVars, encVars, interpVars, uploadVars>>

ClientNext ==
    \/ DrawArea
    \/ ImportArea
    \/ DeleteArea
    \/ SelectGridSize
    \/ GenerateGrid
    \/ GridResponse

ClientSpec == Init /\ [][ClientNext]_vars

\* C30: a grid that is held is the grid of the bounds, the polygon and the
\* cell size that are held now, and a cell size is held.
C30_GridDataIsCurrent ==
    gridData # NoGrid =>
        /\ selectedGridSize # 0
        /\ gridData = Request(currentBounds, currentAreaPolygon, selectedGridSize)

=============================================================================
